---- MODULE Spec2Model ----
(***************************************************************************)
(* A model of the MCP adapter: the stdio framing codec (StdioTransport),   *)
(* the request router (RpcHandler), the session flag of the method         *)
(* dispatcher (MethodDispatcher), the file-creation lock of MCPServer, the *)
(* request handlers of both servers, HttpClient's error mapping and its    *)
(* timed calls, RetryUtils, FramingUtils and parseConfig.                  *)
(*                                                                         *)
(* The specifications share one state:                                     *)
(*   CodecSpec   - StdioTransport fed a byte stream in arbitrary chunks    *)
(*   ResyncSpec  - the same streams in chunks that end at or near the end  *)
(*                 of a segment                                            *)
(*   Spec        - RpcHandler + MethodDispatcher + transport flags         *)
(*   DedupSpec   - MCPServer.performFileCreation and friends               *)
(*   SessionSpec - MethodDispatcher's fallback timer under a clock         *)
(*   HandlerSpec - one request handled by MethodDispatcher or MCPServer    *)
(*   HttpSpec    - HttpClient.mapHttpError on one reply                    *)
(*   RetrySpec   - RetryUtils.withRetry                                    *)
(*   FramingSpec - FramingUtils.frameMessage / parseFramedMessage          *)
(*   ConfigSpec  - parseConfig on one set of flags, environment, profiles  *)
(*   FairSpec    - Spec under a fair event loop                            *)
(*   ReadinessSpec - one dispatcher request in a ready or unready session  *)
(*   FetchSpec   - one HttpClient.get / post call under a clock            *)
(***************************************************************************)
EXTENDS Integers, Sequences, FiniteSets, TLC

NULL == "null"

(***************************************************************************)
(* Bounds                                                                  *)
(***************************************************************************)
\* longest message payload (code units between the braces of a JSON body)
MaxInner == 1
\* most wire segments (frames or header-only segments) in one input stream
MaxSegments == 2

(***************************************************************************)
(* Strings are sequences of UTF-16 code units, as in the JavaScript source *)
(* (String.length, indexOf and substring all count code units).  A code    *)
(* unit is written as a one-character string; "U+00E9" stands for the one  *)
(* code unit of e-acute, whose UTF-8 encoding is two bytes.                *)
(***************************************************************************)
CONTENT_LENGTH_HEADER ==
  <<"C","o","n","t","e","n","t","-","L","e","n","g","t","h",":">>
HEADER_SEPARATOR == <<"\r","\n","\r","\n">>

Digits == <<"0","1","2","3","4","5","6","7","8","9">>
IsDigit(c) == \E i \in 1..10 : Digits[i] = c
DigitVal(c) == (CHOOSE i \in 1..10 : Digits[i] = c) - 1
\* \s of the regular expression, restricted to the code units that occur
IsSpace(c) == c \in {" ", "\t", "\r", "\n"}
\* the 'i' flag of the regular expression: letters compare case-insensitively
Lower(c) ==
  CASE c = "C" -> "c"
    [] c = "L" -> "l"
    [] OTHER -> c

\* Buffer.byteLength(c, 'utf8') of one code unit
Utf8Bytes(c) == IF c = "U+00E9" THEN 2 ELSE 1
ByteLengthInUnits(s) == Len(s)
RECURSIVE ByteLength(_)
ByteLength(s) == IF s = <<>> THEN 0 ELSE Utf8Bytes(Head(s)) + ByteLength(Tail(s))

\* String.prototype.substring(a, b) and substring(a): 0-based, end exclusive,
\* arguments clamped to the length of the string
Clamp(s, i) == IF i < 0 THEN 0 ELSE IF i > Len(s) THEN Len(s) ELSE i
Substring(s, a, b) == SubSeq(s, Clamp(s, a) + 1, Clamp(s, b))
SubstringFrom(s, a) == SubSeq(s, Clamp(s, a) + 1, Len(s))

\* s.startsWith(pat, i) with 0-based i
MatchAt(s, pat, i) ==
  /\ i + Len(pat) <= Len(s)
  /\ \A k \in 1..Len(pat) : s[i + k] = pat[k]
\* String.prototype.indexOf(pat): 0-based index of the first occurrence, or -1
IndexOf(s, pat) ==
  IF \E i \in 0..Len(s) : MatchAt(s, pat, i)
  THEN CHOOSE i \in 0..Len(s) :
         /\ MatchAt(s, pat, i)
         /\ \A j \in 0..(i - 1) : ~MatchAt(s, pat, j)
  ELSE -1

\* Number.prototype.toString() of a natural number, as code units
RECURSIVE ToDigits(_)
ToDigits(n) ==
  IF n < 10 THEN <<Digits[n + 1]>>
  ELSE ToDigits(n \div 10) \o <<Digits[(n % 10) + 1]>>
\* parseInt(ds, 10) of a non-empty run of decimal digits
RECURSIVE ParseInt(_)
ParseInt(ds) ==
  IF Len(ds) = 1 THEN DigitVal(ds[1])
  ELSE 10 * ParseInt(SubSeq(ds, 1, Len(ds) - 1)) + DigitVal(ds[Len(ds)])

(***************************************************************************)
(* headerSection.match(/Content-Length:\s*(\d+)/i)                         *)
(***************************************************************************)
\* the keyword matches at 0-based position i, ignoring case
KeywordAt(h, i) ==
  /\ i + Len(CONTENT_LENGTH_HEADER) <= Len(h)
  /\ \A k \in 1..Len(CONTENT_LENGTH_HEADER) :
       Lower(h[i + k]) = Lower(CONTENT_LENGTH_HEADER[k])
\* 0-based position of the first code unit after the \s* run starting at p
RECURSIVE SkipSpace(_, _)
SkipSpace(h, p) ==
  IF p < Len(h) /\ IsSpace(h[p + 1]) THEN SkipSpace(h, p + 1) ELSE p
\* 0-based end (exclusive) of the maximal digit run starting at p
RECURSIVE DigitsEnd(_, _)
DigitsEnd(h, p) ==
  IF p < Len(h) /\ IsDigit(h[p + 1]) THEN DigitsEnd(h, p + 1) ELSE p
\* the whole pattern matches with the keyword at i
PatternAt(h, i) ==
  /\ KeywordAt(h, i)
  /\ LET p == SkipSpace(h, i + Len(CONTENT_LENGTH_HEADER))
     IN DigitsEnd(h, p) > p
\* capture group 1 of the first match; the empty sequence when nothing
\* matches (a match always captures at least one digit)
ContentLengthMatch(h) ==
  IF \E i \in 0..Len(h) : PatternAt(h, i)
  THEN LET i == CHOOSE i \in 0..Len(h) :
                  PatternAt(h, i) /\ \A j \in 0..(i - 1) : ~PatternAt(h, j)
           p == SkipSpace(h, i + Len(CONTENT_LENGTH_HEADER))
       IN Substring(h, p, DigitsEnd(h, p))
  ELSE <<>>

(***************************************************************************)
(* StdioTransport.extractMessage: the buffer it leaves and the             *)
(* FramedMessage it returns (found = FALSE for null).  The isNaN / < 0     *)
(* branch cannot be taken: \d+ captures a non-empty run of decimal digits. *)
(***************************************************************************)
NoMessage(buf) ==
  [buffer |-> buf, found |-> FALSE, contentLength |-> 0, content |-> <<>>]
SkipHeaderKeep(buf, contentStartIndex) == NoMessage(buf)
\* the header section has no Content-Length: the buffer is cut after the
\* header separator and null is returned
SkipHeader(buf, contentStartIndex) ==
  NoMessage(SubstringFrom(buf, contentStartIndex))
extractMessage(buf) ==
  LET headerEndIndex == IndexOf(buf, HEADER_SEPARATOR)
      headerSection == Substring(buf, 0, headerEndIndex)
      contentStartIndex == headerEndIndex + Len(HEADER_SEPARATOR)
      contentLengthMatch == ContentLengthMatch(headerSection)
  IN IF headerEndIndex = -1
     THEN NoMessage(buf)
     ELSE IF contentLengthMatch = <<>>
     THEN SkipHeader(buf, contentStartIndex)
     ELSE LET contentLength == ParseInt(contentLengthMatch)
          IN IF Len(buf) < contentStartIndex + contentLength
             THEN NoMessage(buf)
             ELSE [buffer |-> SubstringFrom(buf, contentStartIndex + contentLength),
                   found |-> TRUE,
                   contentLength |-> contentLength,
                   content |-> Substring(buf, contentStartIndex,
                                         contentStartIndex + contentLength)]

(***************************************************************************)
(* JSON bodies.  A message is abstracted to its payload, a sequence of     *)
(* code units; JSON.stringify wraps it in braces and JSON.parse accepts    *)
(* exactly the texts of that shape (any other text throws SyntaxError).    *)
(***************************************************************************)
PayloadUnits == {"a", "U+00E9"}
JsonStringify(m) == <<"{">> \o m \o <<"}">>
IsJson(text) ==
  /\ Len(text) >= 2
  /\ text[1] = "{"
  /\ text[Len(text)] = "}"
  /\ \A k \in 2..(Len(text) - 1) : text[k] \in PayloadUnits
JsonParse(text) == SubSeq(text, 2, Len(text) - 1)

\* StdioTransport.sendMessage: the frame written for a message
FrameOf(m) ==
  LET content == JsonStringify(m)
      contentLength == ByteLength(content)
  IN CONTENT_LENGTH_HEADER \o <<" ">> \o ToDigits(contentLength)
       \o HEADER_SEPARATOR \o content

\* the events one framed message gives rise to in processBuffer
EventOf(framed) ==
  IF IsJson(framed.content)
  THEN [type |-> "message", parsed |-> JsonParse(framed.content),
        contentLength |-> framed.contentLength, content |-> framed.content]
  ELSE [type |-> "error", parsed |-> <<>>,
        contentLength |-> framed.contentLength, content |-> framed.content]

\* StdioTransport.processBuffer: extract until extractMessage returns null
RECURSIVE processBuffer(_)
processBuffer(buf) ==
  LET r == extractMessage(buf)
  IN IF ~r.found
     THEN [buffer |-> r.buffer, events |-> <<>>]
     ELSE LET rest == processBuffer(r.buffer)
          IN [buffer |-> rest.buffer,
              events |-> <<EventOf(r)>> \o rest.events]

(***************************************************************************)
(* State                                                                   *)
(***************************************************************************)
VARIABLES
  \* --- StdioTransport ---
  segments,      \* what the peer wrote: the wire segments of the input stream
  stdin,         \* code units of the input stream not yet delivered
  inputBuffer,   \* StdioTransport.inputBuffer
  events,        \* 'message' / 'error' events the transport has emitted
  transportDown, \* StdioTransport.isShuttingDown
  \* --- RpcHandler ---
  calls,           \* the messages received so far, in arrival order, each with
                   \* the position of its handler
  inLoop,          \* processBuffer's loop is running (more frames of this chunk follow)
  microtasks,      \* the microtask queue: continuations of settled promises, FIFO
  pendingRequests, \* RpcHandler.pendingRequests: its keys, in insertion order
  requestTimers,   \* the armed setTimeout handles of handleRequest: id -> delay
  timedOut,        \* ids whose request timer has fired
  isShuttingDown,  \* RpcHandler.isShuttingDown
  shutdownPc,      \* position of RpcHandler.shutdown
  shutdownCause,   \* what called shutdown first
  shutdownVisited, \* entries the for-of loop of shutdown has visited
  pendingAtShutdown, \* the keys of pendingRequests when shutdown began
  dispatched,      \* calls handed to MethodDispatcher.handleRequest, in order
  stdout,          \* the responses written to the output stream, in order
  exitCode,        \* process exit status; Running while the process lives
  \* --- MCPServer file creation ---
  callers,         \* the add_file / generate_initial_context calls and where each stands
  globalFileCreationLocks, \* MCPServer.globalFileCreationLocks: filename -> the call
                   \* whose creation promise is stored (0: no entry)
  backendFiles,    \* names in the backend's listing of the project
  posts,           \* POSTs issued so far, per filename
  disturbed,       \* the backend has failed, answered with a stale listing or
                   \* reported a conflict
  \* --- MethodDispatcher session ---
  now,             \* milliseconds since the MethodDispatcher was constructed
  isInitialized,   \* MethodDispatcher.isInitialized
  initializationTimeout, \* the fallback timer: "armed", "fired", or NULL once cleared
  logPosts,        \* handleInitialized calls awaiting their log POST
  initializeAt,    \* arrival time of the first initialize request ({} before it)
  notifiedInWindow, \* an initialized notification arrived within the timeout
                   \* of that initialize request
  lastToolsCall,   \* the latest tools/call request and what became of it
  \* --- one request through MethodDispatcher or MCPServer ---
  request,         \* the request being handled
  responses,       \* the JSON-RPC envelopes written for it, in order
  queries,         \* the backend paths it has queried
  \* --- HttpClient.mapHttpError ---
  httpReply,       \* the non-2xx reply of the backend: status and body
  httpError,       \* the error mapHttpError returned for it
  \* --- RetryUtils.withRetry ---
  retryPc,         \* position of withRetry
  attempt,         \* its loop variable
  invocations,     \* the failures of the operation so far, one per invocation
  retryResult,     \* how withRetry settled
  \* --- FramingUtils ---
  framedContent,   \* the content string given to frameMessage
  received,        \* the bytes of the frame received so far (a Buffer)
  parsedMessage,   \* what parseFramedMessage returned for them
  \* --- parseConfig ---
  configInput,     \* the flags, environment and configuration files it reads
  configResult,    \* what it returned
  \* --- HttpClient.get / post ---
  fetch            \* one call: its position, timer, clock and outcome

codecVars == <<segments, stdin, inputBuffer, events>>
rpcVars == <<calls, inLoop, microtasks, pendingRequests, requestTimers, timedOut,
             isShuttingDown, shutdownPc, shutdownCause, shutdownVisited,
             pendingAtShutdown, dispatched, stdout, exitCode>>
dedupVars == <<callers, globalFileCreationLocks, backendFiles, posts, disturbed>>
sessionVars == <<now, isInitialized, initializationTimeout, logPosts,
                 initializeAt, notifiedInWindow, lastToolsCall>>
handlerVars == <<request, responses, queries>>
httpVars == <<httpReply, httpError>>
retryVars == <<retryPc, attempt, invocations, retryResult>>
framingVars == <<framedContent, received, parsedMessage>>
configVars == <<configInput, configResult>>
fetchVars == <<fetch>>
utilVars == <<framingVars, configVars, fetchVars>>
auxVars == <<handlerVars, httpVars, retryVars, utilVars>>
vars == <<codecVars, transportDown, rpcVars, dedupVars, sessionVars, auxVars>>

(***************************************************************************)
(* Input streams of the codec                                              *)
(***************************************************************************)
RECURSIVE SeqsUpTo(_, _)
SeqsUpTo(S, n) ==
  IF n = 0 THEN {<<>>}
  ELSE LET shorter == SeqsUpTo(S, n - 1)
       IN shorter \cup {Append(q, x) : q \in {t \in shorter : Len(t) = n - 1}, x \in S}

Messages == SeqsUpTo(PayloadUnits, MaxInner)
\* header segments that carry no parsable Content-Length
JunkHeaders ==
  {<<"X", ":", " ", "1">> \o HEADER_SEPARATOR,
   CONTENT_LENGTH_HEADER \o <<" ", "x">> \o HEADER_SEPARATOR}
Segments ==
  {[kind |-> "frame", msg |-> m, wire |-> FrameOf(m)] : m \in Messages}
    \cup {[kind |-> "junk", msg |-> <<>>, wire |-> j] : j \in JunkHeaders}
RECURSIVE WireOf(_)
WireOf(segs) == IF segs = <<>> THEN <<>> ELSE Head(segs).wire \o WireOf(Tail(segs))

Running == "running"

\* the RpcHandler as constructed, before any message
RpcIdle ==
  /\ calls = <<>>
  /\ inLoop = FALSE
  /\ microtasks = <<>>
  /\ pendingRequests = <<>>
  /\ requestTimers = {}
  /\ timedOut = {}
  /\ isShuttingDown = FALSE
  /\ shutdownPc = "idle"
  /\ shutdownCause = "none"
  /\ shutdownVisited = {}
  /\ pendingAtShutdown = {}
  /\ dispatched = <<>>
  /\ stdout = <<>>
  /\ exitCode = Running

\* the transport as constructed, with nothing on its input
CodecIdle ==
  /\ segments = <<>>
  /\ stdin = <<>>
  /\ inputBuffer = <<>>
  /\ events = <<>>

\* most add_file / generate_initial_context calls in one run
MaxCallers == 3
\* the filename the tool calls name, and the names the project can hold
Filenames == {"project-context.md"}
ContextNames == Filenames \cup {"notes.md"}
\* a call not made yet.  waitsFor is the call whose creation promise this
\* one awaits; arrivedDuring records the oldest call for the same key that
\* was pending when this one arrived (0: none)
NoCaller == [tool |-> "none", filename |-> "", pc |-> "idle", waitsFor |-> 0,
             arrivedDuring |-> 0, result |-> "none"]

\* the server with no tool call made yet
DedupIdle ==
  /\ callers = [c \in 1..MaxCallers |-> NoCaller]
  /\ globalFileCreationLocks = [f \in Filenames |-> 0]
  /\ backendFiles = {}
  /\ posts = [f \in Filenames |-> 0]
  /\ disturbed = FALSE

\* the MethodDispatcher as its constructor leaves it: not initialized, the
\* fallback timer armed
NoToolsCall == [seen |-> FALSE, at |-> 0, shuttingDown |-> FALSE,
                initialized |-> FALSE, processed |-> FALSE]
SessionIdle ==
  /\ now = 0
  /\ isInitialized = FALSE
  /\ initializationTimeout = "armed"
  /\ logPosts = 0
  /\ initializeAt = {}
  /\ notifiedInWindow = FALSE
  /\ lastToolsCall = NoToolsCall

\* nothing handled, mapped or retried yet
NoRequest == [impl |-> "none"]
NoHttpReply ==
  [status |-> 0,
   body |-> [kind |-> "none", hasRetryAfter |-> FALSE, retryAfter |-> 0,
             hasMessage |-> FALSE]]
NoHttpError ==
  [code |-> 0, message |-> [text |-> "none", status |-> 0], http_status |-> 0,
   hasRetryAfter |-> FALSE, retry_after |-> 0, details |-> "none"]
\* parseConfig has not been called
NoConfigInput == [kind |-> "none"]
NoConfigResult == [kind |-> "none"]
\* parseFramedMessage has not been called
NotParsed == [kind |-> "none", message |-> <<>>, remaining |-> <<>>]
\* no HttpClient call has been made
NoFetch ==
  [pc |-> "idle", method |-> "none", timeout |-> 0, clock |-> 0, timer |-> "none",
   aborted |-> FALSE, status |-> 0, result |-> [kind |-> "none", code |-> 0, message |-> ""]]
AuxIdle ==
  /\ request = NoRequest
  /\ responses = <<>>
  /\ queries = {}
  /\ httpReply = NoHttpReply
  /\ httpError = NoHttpError
  /\ retryPc = "idle"
  /\ attempt = 0
  /\ invocations = <<>>
  /\ retryResult = "none"
  /\ framedContent = <<>>
  /\ received = <<>>
  /\ parsedMessage = NotParsed
  /\ configInput = NoConfigInput
  /\ configResult = NoConfigResult
  /\ fetch = NoFetch

CodecInit ==
  /\ RpcIdle
  /\ DedupIdle
  /\ SessionIdle
  /\ AuxIdle
  /\ transportDown = FALSE
  /\ segments \in (SeqsUpTo(Segments, MaxSegments) \ {<<>>})
  /\ stdin = WireOf(segments)
  /\ inputBuffer = <<>>
  /\ events = <<>>

\* inputStream.on('data', chunk): a chunk of n code units arrives
StdinData(n) ==
  /\ n \in 1..Len(stdin)
  /\ stdin' = SubSeq(stdin, n + 1, Len(stdin))
  /\ IF transportDown
     THEN UNCHANGED <<inputBuffer, events>>
     ELSE LET r == processBuffer(inputBuffer \o SubSeq(stdin, 1, n))
          IN /\ inputBuffer' = r.buffer
             /\ events' = events \o r.events
  /\ UNCHANGED <<segments, transportDown, rpcVars, dedupVars, sessionVars, auxVars>>

\* StdioTransport.shutdown, called by its owner
TransportShutdown ==
  /\ ~transportDown
  /\ transportDown' = TRUE
  /\ UNCHANGED <<segments, stdin, inputBuffer, events, rpcVars, dedupVars, sessionVars, auxVars>>

CodecNext ==
  \/ \E n \in 1..Len(stdin) : StdinData(n)
  \/ TransportShutdown

CodecSpec == CodecInit /\ [][CodecNext]_vars

(***************************************************************************)
(* RpcHandler.  JavaScript runs one task at a time: a macrotask (a data    *)
(* chunk, a timer, a signal, a backend reply) starts only when the         *)
(* microtask queue is empty, and the continuations of settled promises     *)
(* (microtasks) run in the order they were queued.  An await of a settled  *)
(* promise or of a plain value resumes one microtask later.                *)
(* Request ids are the arrival numbers of the messages, so they are        *)
(* distinct.                                                               *)
(***************************************************************************)
\* most messages received in one run
MaxMessages == 2

REQUEST_TIMEOUT_MS == 30000

RequestMethods == {"initialize", "resources/list", "tools/call", "unknown/method", ""}
NotificationMethods == {"initialized", "unknown/method"}
\* the frames a client can send: json = FALSE is a body that is not JSON;
\* method = NULL is a method that is not a string
Frames ==
  {[json |-> TRUE, jsonrpc |-> "2.0", hasId |-> TRUE, method |-> m] : m \in RequestMethods}
    \cup {[json |-> TRUE, jsonrpc |-> "2.0", hasId |-> FALSE, method |-> m] :
            m \in NotificationMethods}
    \cup {[json |-> TRUE, jsonrpc |-> "2.0", hasId |-> TRUE, method |-> NULL],
          [json |-> FALSE, jsonrpc |-> NULL, hasId |-> FALSE, method |-> NULL]}

isRequest(m) == m.jsonrpc = "2.0" /\ m.method # NULL /\ m.hasId
isNotification(m) == m.jsonrpc = "2.0" /\ m.method # NULL /\ ~m.hasId

\* MethodDispatcher.handleRequest: whether the promise it returns settles
\* without waiting for the backend ("micro") or after a backend call ("io")
DispatchClass(method) ==
  IF method \in {"initialize", "initialized", "resources/read", "tools/list", "tools/call"}
  THEN "io" ELSE "micro"
\* ... and how it can settle: resolved with a result, or rejected
DispatchOutcomes(method) ==
  CASE method \in {"initialize", "initialized", "resources/list", "tools/list"} -> {"result"}
    [] method \in {"resources/read", "tools/call"} -> {"result", "error"}
    [] OTHER -> {"error"}

MapDeleteNothing(keys, id) == keys
\* Map.prototype.delete on the keys of pendingRequests
MapDelete(keys, id) == SelectSeq(keys, LAMBDA k : k # id)
SetTimeoutNever(timers, id) == timers
\* setTimeout(..., REQUEST_TIMEOUT_MS) of handleRequest
SetTimeout(timers, id) == timers \cup {[id |-> id, delay |-> REQUEST_TIMEOUT_MS]}
ClearAllTimers(timers, id) == {}
\* clearTimeout
ClearTimer(timers, id) == {t \in timers : t.id # id}
InSeq(q, x) == \E k \in 1..Len(q) : q[k] = x

HandToDispatcherFirst(q, id) == <<id>> \o q
\* this.dispatcher.handleRequest(...) is called: the call joins the record
\* of the calls handed over, in the order of the handing over
HandToDispatcher(q, id) == Append(q, id)

\* StdioTransport.send / sendMessage: nothing is written once the transport
\* is shutting down
Send(out, down, response) == IF down THEN out ELSE Append(out, response)

RejectedResponse(id) ==
  [id |-> id, kind |-> "error", message |-> "Server is shutting down"]
\* the sentinel id 'unknown' of the reply to a malformed message (request
\* ids are the positive arrival numbers)
UNKNOWN_ID == 0
InvalidFormatResponse ==
  [id |-> UNKNOWN_ID, kind |-> "error", message |-> "Invalid JSON-RPC message format"]
InvalidMethodResponse(id) ==
  [id |-> id, kind |-> "error", message |-> "Missing or invalid method"]
TimeoutResponse(id) ==
  [id |-> id, kind |-> "error", message |-> "Request timeout"]
ShutdownResponse(id) ==
  [id |-> id, kind |-> "error", message |-> "Server shutting down"]
\* the response of handleRequest once the dispatcher has settled
SettledResponse(id, outcome) ==
  [id |-> id, kind |-> outcome, message |-> "dispatcher"]

\* the continuations queued as microtasks:
\*   "dispatch" - MethodDispatcher.handleRequest resumes after its await of a
\*                handler that returned without waiting (resources/list)
\*   "respond"  - handleRequest / handleNotification of RpcHandler resumes
\*                after its await of dispatcher.handleRequest
\*   "shutdown" - RpcHandler.shutdown resumes after an await
Microtask(kind, i) == [kind |-> kind, call |-> i]
MicrotaskQueued == microtasks # <<>>
\* what dispatching a call queues: a handler that throws before any await
\* ("error") rejects the promise at once, so only the caller's await is left
DispatchQueues(method, i) ==
  IF DispatchClass(method) = "io" THEN <<>>
  ELSE IF DispatchOutcomes(method) = {"error"} THEN <<Microtask("respond", i)>>
  ELSE <<Microtask("dispatch", i)>>
\* the event loop can start a macrotask
Idle == exitCode = Running /\ ~inLoop /\ ~MicrotaskQueued

NextEntryNone(keys, visited) == 0
\* the entry the for-of loop over pendingRequests visits next (0: none left)
NextEntry(keys, visited) ==
  IF \E k \in 1..Len(keys) : keys[k] \notin visited
  THEN keys[CHOOSE k \in 1..Len(keys) :
              /\ keys[k] \notin visited
              /\ \A j \in 1..(k - 1) : keys[j] \in visited]
  ELSE 0

AlreadyShuttingDownNever(flag) == FALSE
\* if (this.isShuttingDown) return, the first statement of shutdown
AlreadyShuttingDown(flag) == flag

\* RpcHandler.shutdown from its start to its first await, called with the
\* primed values `cs` of calls (the caller may have just changed them)
ShutdownBegin(cause, cs) ==
  /\ calls' = cs
  /\ microtasks' = Append(microtasks, Microtask("shutdown", 0))
  /\ isShuttingDown' = TRUE
  /\ shutdownCause' = cause
  /\ pendingAtShutdown' = {pendingRequests[k] : k \in 1..Len(pendingRequests)}
  /\ IF pendingRequests # <<>>
     THEN LET id == pendingRequests[1]
          IN /\ requestTimers' = ClearTimer(requestTimers, id)
             /\ stdout' = Send(stdout, transportDown, ShutdownResponse(id))
             /\ shutdownVisited' = {id}
             /\ shutdownPc' = "loop"
             /\ UNCHANGED <<pendingRequests, transportDown>>
     ELSE /\ pendingRequests' = <<>>
          /\ transportDown' = TRUE
          /\ shutdownPc' = "closing"
          /\ UNCHANGED <<requestTimers, stdout, shutdownVisited>>
  /\ UNCHANGED <<timedOut, dispatched, exitCode>>

\* RpcHandler.handleMessage up to its first suspension, for the frame m that
\* becomes call number Len(calls) + 1 (its request id)
HandleMessage(m) ==
  LET id == Len(calls) + 1
      call(pc) == [json |-> m.json, jsonrpc |-> m.jsonrpc, hasId |-> m.hasId,
                   method |-> m.method, pc |-> pc, duringShutdown |-> isShuttingDown]
  IN IF isShuttingDown
     THEN /\ calls' = Append(calls, call("done"))
          /\ stdout' = IF isRequest(m)
                       THEN Send(stdout, transportDown, RejectedResponse(id))
                       ELSE stdout
          /\ UNCHANGED <<pendingRequests, requestTimers, dispatched, microtasks>>
     ELSE IF isRequest(m)
     THEN IF m.method = ""
          THEN \* thrown and caught before the first await
               /\ calls' = Append(calls, call("done"))
               /\ stdout' = Send(stdout, transportDown, InvalidMethodResponse(id))
               /\ UNCHANGED <<pendingRequests, requestTimers, dispatched, microtasks>>
          ELSE /\ calls' = Append(calls, call(DispatchClass(m.method)))
               /\ microtasks' = microtasks \o DispatchQueues(m.method, id)
               /\ requestTimers' = SetTimeout(requestTimers, id)
               /\ pendingRequests' = Append(pendingRequests, id)
               /\ dispatched' = HandToDispatcher(dispatched, id)
               /\ UNCHANGED stdout
     ELSE IF isNotification(m)
     THEN /\ calls' = Append(calls, call(DispatchClass(m.method)))
          /\ microtasks' = microtasks \o DispatchQueues(m.method, id)
          /\ dispatched' = HandToDispatcher(dispatched, id)
          /\ UNCHANGED <<pendingRequests, requestTimers, stdout>>
     ELSE /\ calls' = Append(calls, call("done"))
          /\ stdout' = Send(stdout, transportDown, InvalidFormatResponse)
          /\ UNCHANGED <<pendingRequests, requestTimers, dispatched, microtasks>>

\* processBuffer handles one frame of the current chunk: a body that is not
\* JSON is emitted as 'error' (handleTransportError -> shutdown), any other
\* body as 'message' (handleMessage).  `more`: further frames of the same
\* chunk follow.
ReceiveFrame(m, more) ==
  /\ exitCode = Running
  /\ Len(calls) < MaxMessages
  /\ more => Len(calls) + 1 < MaxMessages
  /\ inLoop \/ (~MicrotaskQueued /\ ~transportDown)
  /\ inLoop' = more
  /\ IF ~m.json
     THEN LET cs == Append(calls, [json |-> FALSE, jsonrpc |-> m.jsonrpc,
                                   hasId |-> m.hasId, method |-> m.method,
                                   pc |-> "done", duringShutdown |-> isShuttingDown])
          IN IF AlreadyShuttingDown(isShuttingDown)
             THEN /\ calls' = cs
                  /\ UNCHANGED <<microtasks, pendingRequests, requestTimers, timedOut,
                                 isShuttingDown, shutdownPc, shutdownCause,
                                 shutdownVisited, pendingAtShutdown, dispatched,
                                 stdout, exitCode, transportDown>>
             ELSE ShutdownBegin("parse", cs)
     ELSE /\ HandleMessage(m)
          /\ UNCHANGED <<timedOut, isShuttingDown, shutdownPc, shutdownCause,
                         shutdownVisited, pendingAtShutdown, exitCode, transportDown>>
  /\ UNCHANGED <<codecVars, dedupVars, sessionVars, auxVars>>

\* MethodDispatcher.handleRequest resumes after awaiting a handler that
\* returned at once, and returns: the promise RpcHandler awaits is resolved
DispatcherReturns(i) ==
  /\ exitCode = Running
  /\ ~inLoop
  /\ microtasks # <<>>
  /\ Head(microtasks) = Microtask("dispatch", i)
  /\ microtasks' = Append(Tail(microtasks), Microtask("respond", i))
  /\ UNCHANGED <<calls, inLoop, pendingRequests, requestTimers, timedOut,
                 isShuttingDown, shutdownPc, shutdownCause, shutdownVisited,
                 pendingAtShutdown, dispatched, stdout, exitCode,
                 transportDown, codecVars, dedupVars, sessionVars, auxVars>>

ExpectsResponseAlways(call) == TRUE
\* the await being resumed is that of handleRequest, which goes on to
\* clear the timer and send a response; handleNotification only returns
\* (or logs the error)
ExpectsResponse(call) == call.hasId

\* handleRequest / handleNotification resumes after its await of
\* dispatcher.handleRequest for call i, which settled with `outcome`: as a
\* microtask when the dispatcher never waited, else on the backend's reply
Settle(i, outcome) ==
  /\ exitCode = Running
  /\ ~inLoop
  /\ i \in 1..Len(calls)
  /\ outcome \in DispatchOutcomes(calls[i].method)
  /\ \/ /\ calls[i].pc = "micro"
        /\ microtasks # <<>>
        /\ Head(microtasks) = Microtask("respond", i)
        /\ microtasks' = Tail(microtasks)
     \/ /\ calls[i].pc = "io"
        /\ ~MicrotaskQueued
        /\ UNCHANGED microtasks
  /\ calls' = [calls EXCEPT ![i].pc = "done"]
  /\ IF ExpectsResponse(calls[i])
     THEN /\ requestTimers' = ClearTimer(requestTimers, i)
          /\ pendingRequests' = MapDelete(pendingRequests, i)
          /\ stdout' = Send(stdout, transportDown, SettledResponse(i, outcome))
     ELSE UNCHANGED <<requestTimers, pendingRequests, stdout>>
  /\ UNCHANGED <<inLoop, timedOut, isShuttingDown, shutdownPc, shutdownCause,
                 shutdownVisited, pendingAtShutdown, dispatched, exitCode,
                 transportDown, codecVars, dedupVars, sessionVars, auxVars>>

\* the setTimeout callback of handleRequest
RequestTimeout(id) ==
  /\ Idle
  /\ \E t \in requestTimers : t.id = id
  /\ requestTimers' = ClearTimer(requestTimers, id)
  /\ timedOut' = timedOut \cup {id}
  /\ pendingRequests' = MapDelete(pendingRequests, id)
  /\ stdout' = Send(stdout, transportDown, TimeoutResponse(id))
  /\ UNCHANGED <<calls, inLoop, microtasks, isShuttingDown, shutdownPc,
                 shutdownCause, shutdownVisited, pendingAtShutdown, dispatched,
                 exitCode, transportDown, codecVars, dedupVars, sessionVars, auxVars>>

\* SIGINT / SIGTERM, or an 'error' of the input stream: shutdown() is called
ShutdownSignal(cause) ==
  /\ Idle
  /\ cause \in {"SIGINT", "SIGTERM", "stream"}
  /\ IF AlreadyShuttingDown(isShuttingDown)
     THEN UNCHANGED <<calls, microtasks, pendingRequests, requestTimers, timedOut,
                      isShuttingDown, shutdownPc, shutdownCause, shutdownVisited,
                      pendingAtShutdown, dispatched, stdout, exitCode, transportDown>>
     ELSE ShutdownBegin(cause, calls)
  /\ UNCHANGED <<inLoop, codecVars, dedupVars, sessionVars, auxVars>>

\* shutdown resumes after an await: of transport.send in the loop, then of
\* transport.close before process.exit(0)
ShutdownStep ==
  /\ exitCode = Running
  /\ ~inLoop
  /\ microtasks # <<>>
  /\ Head(microtasks) = Microtask("shutdown", 0)
  /\ IF shutdownPc = "closing"
     THEN /\ exitCode' = "0"
          /\ shutdownPc' = "exited"
          /\ microtasks' = Tail(microtasks)
          /\ UNCHANGED <<pendingRequests, requestTimers, stdout, shutdownVisited,
                         transportDown>>
     ELSE LET id == NextEntry(pendingRequests, shutdownVisited)
          IN /\ microtasks' = Append(Tail(microtasks), Microtask("shutdown", 0))
             /\ IF id # 0
                THEN /\ requestTimers' = ClearTimer(requestTimers, id)
                     /\ stdout' = Send(stdout, transportDown, ShutdownResponse(id))
                     /\ shutdownVisited' = shutdownVisited \cup {id}
                     /\ UNCHANGED <<pendingRequests, shutdownPc, exitCode, transportDown>>
                ELSE /\ pendingRequests' = <<>>
                     /\ transportDown' = TRUE
                     /\ shutdownPc' = "closing"
                     /\ UNCHANGED <<requestTimers, stdout, shutdownVisited, exitCode>>
  /\ UNCHANGED <<calls, inLoop, timedOut, isShuttingDown, shutdownCause,
                 pendingAtShutdown, dispatched, codecVars, dedupVars, sessionVars, auxVars>>

Init ==
  /\ CodecIdle
  /\ transportDown = FALSE
  /\ RpcIdle
  /\ DedupIdle
  /\ SessionIdle
  /\ AuxIdle

Next ==
  \/ \E m \in Frames, more \in BOOLEAN : ReceiveFrame(m, more)
  \/ \E i \in 1..MaxMessages : DispatcherReturns(i)
  \/ \E i \in 1..MaxMessages, outcome \in {"result", "error"} : Settle(i, outcome)
  \/ \E id \in 1..MaxMessages : RequestTimeout(id)
  \/ \E cause \in {"SIGINT", "SIGTERM", "stream"} : ShutdownSignal(cause)
  \/ ShutdownStep

Spec == Init /\ [][Next]_vars

(***************************************************************************)
(* Properties of the request router (Spec)                                 *)
(***************************************************************************)
ResponsesFor(id) == SelectSeq(stdout, LAMBDA r : r.id = id)
RequestIds == {i \in 1..Len(calls) : isRequest(calls[i])}
ShutdownSignals == {"SIGINT", "SIGTERM"}

\* C1: every response written carries the id of an issued request and no
\* request id is answered twice, whichever of completion, timeout or
\* shutdown happens.
C1_OneResponsePerRequest ==
  /\ \A k \in 1..Len(stdout) :
       stdout[k].id # UNKNOWN_ID => stdout[k].id \in RequestIds
  /\ \A id \in RequestIds : Len(ResponsesFor(id)) <= 1

\* C6: a request whose dispatch has not completed and whose 30,000 ms timer
\* has fired has exactly one response, the 'Request timeout' error, and is
\* no longer in the pending set (nor is a timer armed for it).
C6_TimeoutAnswersOnce ==
  /\ \A t \in requestTimers : t.delay = REQUEST_TIMEOUT_MS
  /\ \A id \in timedOut :
       calls[id].pc # "done" =>
         /\ ResponsesFor(id) = <<TimeoutResponse(id)>>
         /\ ~InSeq(pendingRequests, id)
         /\ \A t \in requestTimers : t.id # id
C6_Witness ==
  \E id \in timedOut : calls[id].pc # "done" /\ isShuttingDown

\* C7: when shutdown was started by a signal (or an input-stream error) and
\* the transport has been closed, every request that was pending when
\* shutdown began has its 'Server shutting down' response on the output
\* (nothing is written after the close) and the pending set is empty.
C7_ShutdownDrains ==
  (shutdownCause \in ShutdownSignals \cup {"stream"} /\ transportDown) =>
    /\ pendingRequests = <<>>
    /\ \A id \in pendingAtShutdown : InSeq(stdout, ShutdownResponse(id))
C7_Witness ==
  /\ shutdownCause \in ShutdownSignals
  /\ transportDown
  /\ Cardinality(pendingAtShutdown) = 2

\* C8: every request received once shutdown has begun is answered with the
\* 'shutting down' error carrying its id and is never dispatched.
C8_RejectedDuringShutdown ==
  \A id \in RequestIds :
    calls[id].duringShutdown =>
      /\ InSeq(stdout, RejectedResponse(id))
      /\ ~InSeq(dispatched, id)

\* C9: protocol errors never terminate the adapter: only a signal or an
\* input-stream error starts shutdown, closes the transport or ends the
\* process, and a request for an unknown or invalid method that has been
\* handled has an error response.
C9_ProtocolErrorsDoNotTerminate ==
  /\ (isShuttingDown \/ transportDown \/ exitCode # Running) =>
       shutdownCause \in ShutdownSignals \cup {"stream"}
  /\ \A id \in RequestIds :
       (calls[id].method \in {"unknown/method", ""} /\ calls[id].pc = "done"
          /\ ~calls[id].duringShutdown) =>
         \E k \in 1..Len(stdout) : stdout[k].id = id /\ stdout[k].kind = "error"

\* the messages received that parsed as JSON but are neither a Request nor
\* a Notification
MalformedCalls ==
  {i \in 1..Len(calls) :
     calls[i].json /\ ~isRequest(calls[i]) /\ ~isNotification(calls[i])}
\* C17: every parsed message that is neither a valid Request nor a valid
\* Notification is answered with the 'Invalid JSON-RPC message format'
\* error under the sentinel id (one such response per message, none
\* dropped) and is never dispatched
C17_MalformedMessageAnswered ==
  /\ Len(ResponsesFor(UNKNOWN_ID)) = Cardinality(MalformedCalls)
  /\ \A k \in 1..Len(stdout) :
       stdout[k].id = UNKNOWN_ID => stdout[k] = InvalidFormatResponse
  /\ \A i \in MalformedCalls : ~InSeq(dispatched, i)

\* the notifications received: parsed messages with jsonrpc '2.0', a
\* string method and no id
NotificationCalls ==
  {i \in 1..Len(calls) :
     /\ calls[i].json /\ calls[i].jsonrpc = "2.0"
     /\ calls[i].method # NULL /\ ~calls[i].hasId}
\* C18: no response is ever written for a notification, whether its
\* dispatch succeeds or fails, and it never has an entry in the pending
\* set or a request timer; received while the handler is running, it is
\* dispatched
C18_NotificationGetsNoResponse ==
  \A i \in NotificationCalls :
    /\ ResponsesFor(i) = <<>>
    /\ ~InSeq(pendingRequests, i)
    /\ \A t \in requestTimers : t.id # i
    /\ ~calls[i].duringShutdown => InSeq(dispatched, i)
\* a notification was dispatched and its dispatch failed, after a request
\* was answered
C18_Witness ==
  \E i \in NotificationCalls :
    /\ calls[i].method = "unknown/method"
    /\ calls[i].pc = "done"
    /\ ~calls[i].duringShutdown
    /\ InSeq(dispatched, i)
    /\ stdout # <<>>

\* C21: a fatal error (here: an error of the input stream) never ends
\* with the process exiting with status 0; when the process ends after
\* it, the exit status is not zero
C21_FatalErrorExitsNonZero ==
  shutdownCause = "stream" => exitCode # "0"

\* C24: when the request timer fired before the dispatcher finished, the
\* dispatcher's later result or error is discarded: the 'Request timeout'
\* error stays the only response written for that id
C24_LateResultDiscarded ==
  \A id \in timedOut :
    (calls[id].pc = "done" /\ ~isShuttingDown) =>
      ResponsesFor(id) = <<TimeoutResponse(id)>>

(***************************************************************************)
(* FairSpec: the router under a fair event loop.  Code that is running     *)
(* goes on running (the frames left in the current chunk are handled, the  *)
(* queued microtasks run) and an armed timer whose callback can run does   *)
(* run.  Nothing is assumed of the backend (a call behind a request may    *)
(* never return), of the client or of signals.                             *)
(***************************************************************************)
\* processBuffer goes on with the next frame of the chunk
ChunkContinues == inLoop /\ \E m \in Frames, more \in BOOLEAN : ReceiveFrame(m, more)
\* the microtask at the head of the queue runs
MicrotaskRuns ==
  \/ \E i \in 1..MaxMessages : DispatcherReturns(i)
  \/ \E i \in 1..MaxMessages, outcome \in {"result", "error"} :
       i \in 1..Len(calls) /\ calls[i].pc = "micro" /\ Settle(i, outcome)
  \/ ShutdownStep
FairSpec ==
  /\ Init /\ [][Next]_vars
  /\ WF_vars(ChunkContinues)
  /\ WF_vars(MicrotaskRuns)
  /\ \A id \in 1..MaxMessages : WF_vars(RequestTimeout(id))

\* the request with this id was accepted while the handler was not
\* shutting down
Accepted(id) ==
  /\ id \in 1..Len(calls)
  /\ isRequest(calls[id])
  /\ ~calls[id].duringShutdown

\* C32: every request accepted while the handler is not shutting down
\* eventually has a response written for its id, by completion, by the
\* timeout or by the shutdown loop, even if the backend call behind it
\* never returns
C32_EveryRequestAnswered ==
  \A id \in 1..MaxMessages : Accepted(id) ~> (ResponsesFor(id) # <<>>)
\* a request whose backend call has not returned was answered by its
\* timeout alone, with no shutdown
C32_Witness ==
  \E id \in 1..Len(calls) :
    /\ Accepted(id)
    /\ calls[id].pc = "io"
    /\ ~isShuttingDown
    /\ ResponsesFor(id) = <<TimeoutResponse(id)>>

PendingIds == {pendingRequests[k] : k \in 1..Len(pendingRequests)}
ArmedIds == {t.id : t \in requestTimers}
\* the requests whose handling has started and that have no response yet
Unanswered == {id \in 1..Len(calls) : Accepted(id) /\ ResponsesFor(id) = <<>>}

\* C33: at every moment the pending set holds exactly the ids of the
\* requests whose handling has started and to which no response has been
\* sent, each with its timer armed; so when no request is in flight the
\* set is empty and no request timer is armed
C33_PendingIsUnanswered ==
  /\ PendingIds = Unanswered
  /\ ArmedIds = PendingIds
  /\ (\A id \in 1..Len(calls) : calls[id].pc = "done") =>
       (pendingRequests = <<>> /\ requestTimers = {})

\* the message is one that handleMessage hands to the dispatcher: received
\* while the handler is running, a request with a usable method or a
\* notification
Dispatchable(i) ==
  /\ calls[i].json
  /\ ~calls[i].duringShutdown
  /\ \/ isRequest(calls[i]) /\ calls[i].method # ""
     \/ isNotification(calls[i])

\* C34: messages are handed to the dispatcher in the order their frames
\* arrived, each as it arrives: a message that has arrived has been
\* dispatched whatever the earlier requests are still waiting for; only
\* responses can be written out of arrival order
C34_DispatchInArrivalOrder ==
  /\ \A k, l \in 1..Len(dispatched) : k < l => dispatched[k] < dispatched[l]
  /\ \A i \in 1..Len(calls) : Dispatchable(i) => InSeq(dispatched, i)
\* the first request still waits for the backend; the second, which
\* arrived later, was dispatched and has been answered before it
C34_Witness ==
  /\ Len(calls) = 2
  /\ isRequest(calls[1]) /\ calls[1].pc = "io"
  /\ isRequest(calls[2]) /\ calls[2].pc = "done"
  /\ dispatched = <<1, 2>>
  /\ ~isShuttingDown
  /\ stdout = <<SettledResponse(2, "result")>>

\* C35: an exception while a request is handled gives an error response
\* for that request and changes nothing else: the handler keeps running,
\* and for every other request the pending entry, the timer, the position
\* of its handling and the responses written are what they were
C35_FailureTouchesOnlyItsRequest ==
  [][\A i \in 1..Len(calls) :
       (isRequest(calls[i]) /\ Settle(i, "error")) =>
         /\ stdout' = Send(stdout, transportDown, SettledResponse(i, "error"))
         /\ isShuttingDown' = isShuttingDown
         /\ transportDown' = transportDown
         /\ exitCode' = exitCode
         /\ \A j \in (1..Len(calls)) \ {i} :
              /\ calls'[j] = calls[j]
              /\ j \in PendingIds' <=> j \in PendingIds
              /\ j \in ArmedIds' <=> j \in ArmedIds
              /\ ResponsesFor(j)' = ResponsesFor(j)]_vars
\* the second request failed and has its error response; the first is
\* still pending with its timer armed and nothing written for it
C35_Witness ==
  /\ Len(calls) = 2
  /\ isRequest(calls[1]) /\ calls[1].pc = "io"
  /\ isRequest(calls[2]) /\ calls[2].pc = "done"
  /\ ~isShuttingDown
  /\ stdout = <<SettledResponse(2, "error")>>
  /\ pendingRequests = <<1>>
  /\ ArmedIds = {1}

\* the shutdown continuations queued, and the 'Server shutting down'
\* responses written for a request
ShutdownTasks(q) == SelectSeq(q, LAMBDA t : t.kind = "shutdown")
ShutdownResponses(out, id) == SelectSeq(out, LAMBDA r : r = ShutdownResponse(id))

\* C39: shutdown runs at most once: a signal or a transport error that
\* arrives while shutdown is in progress starts no second run, so there
\* is never more than one shutdown continuation, no request is sent the
\* shutdown error twice, and the run in progress keeps its cause and its
\* set of pending requests
C39_ShutdownRunsOnce ==
  [][/\ Len(ShutdownTasks(microtasks')) <= 1
     /\ \A id \in 1..Len(calls') : Len(ShutdownResponses(stdout', id)) <= 1
     /\ isShuttingDown =>
          /\ shutdownCause' = shutdownCause
          /\ pendingAtShutdown' = pendingAtShutdown]_vars
\* two bodies that are not JSON arrived in one chunk: the first started
\* shutdown, the second came while it was in progress, and the one run
\* has closed the transport and ended the process
C39_Witness ==
  /\ Len(calls) = 2
  /\ ~calls[1].json /\ ~calls[1].duringShutdown
  /\ ~calls[2].json /\ calls[2].duringShutdown
  /\ shutdownCause = "parse"
  /\ transportDown
  /\ exitCode = "0"

(***************************************************************************)
(* Properties of the framing codec (CodecSpec)                             *)
(***************************************************************************)
\* the part of the input stream delivered so far
Delivered ==
  SubSeq(WireOf(segments), 1, Len(WireOf(segments)) - Len(stdin))
\* how many leading segments of the stream have arrived completely
RECURSIVE WholeSegments(_, _)
WholeSegments(segs, n) ==
  IF segs = <<>> \/ Len(Head(segs).wire) > n THEN 0
  ELSE 1 + WholeSegments(Tail(segs), n - Len(Head(segs).wire))
AllFrames == \A k \in 1..Len(segments) : segments[k].kind = "frame"
IsPrefix(p, q) == Len(p) <= Len(q) /\ p = SubSeq(q, 1, Len(p))
SentMessages == [k \in 1..Len(segments) |-> segments[k].msg]
EmittedMessages == [k \in 1..Len(events) |-> events[k].parsed]

\* C4: a body is emitted only after the whole frame that declares it has
\* arrived, and every emitted body has exactly the declared UTF-8 byte
\* length, multi-byte characters included.
C4_BodyHasDeclaredByteLength ==
  /\ AllFrames => Len(events) <= WholeSegments(segments, Len(Delivered))
  /\ \A k \in 1..Len(events) :
       ByteLength(events[k].content) = events[k].contentLength

\* the buffer holds a complete header section without a parsable
\* Content-Length at its head
MalformedHeader(buf) ==
  /\ IndexOf(buf, HEADER_SEPARATOR) # -1
  /\ ContentLengthMatch(Substring(buf, 0, IndexOf(buf, HEADER_SEPARATOR))) = <<>>
\* the buffer at the last extractMessage call of processBuffer's loop, and
\* the number of frames extracted before it
RECURSIVE LastCall(_)
LastCall(buf) ==
  IF extractMessage(buf).found THEN LastCall(extractMessage(buf).buffer) ELSE buf
RECURSIVE FramesBefore(_)
FramesBefore(buf) ==
  IF extractMessage(buf).found THEN 1 + FramesBefore(extractMessage(buf).buffer)
  ELSE 0

\* ResyncSpec: the streams of CodecSpec, delivered in chunks that end at
\* the end of a segment or two code units before it (inside the header
\* separator of a header-only segment, inside the body of a frame)
SegmentEnds == {Len(WireOf(SubSeq(segments, 1, k))) : k \in 1..Len(segments)}
ChunkEnds == SegmentEnds \cup {e - 2 : e \in SegmentEnds}
Consumed == Len(WireOf(segments)) - Len(stdin)
\* a chunk arrives that ends at e
StdinDataUpTo(e) == StdinData(e - Consumed)
ResyncNext ==
  \/ \E e \in ChunkEnds : StdinDataUpTo(e)
  \/ TransportShutdown
ResyncSpec == CodecInit /\ [][ResyncNext]_vars

\* C16: when the loop of processBuffer reaches a header section with no
\* parsable Content-Length, the section is discarded through the end of
\* its header separator and nothing else happens: no 'message' and no
\* 'error' event is emitted for it and the transport is not shut down
C16_MalformedHeaderSkippedSilently ==
  [][(stdin' # stdin /\ ~transportDown) =>
       \A buf \in {inputBuffer \o SubSeq(stdin, 1, Len(stdin) - Len(stdin'))} :
         \A reached \in {LastCall(buf)} :
           MalformedHeader(reached) =>
             /\ inputBuffer' =
                  SubstringFrom(reached, IndexOf(reached, HEADER_SEPARATOR)
                                           + Len(HEADER_SEPARATOR))
             /\ Len(events') = Len(events) + FramesBefore(buf)
             /\ transportDown' = transportDown]_vars
\* a header segment without Content-Length was followed by a frame: the
\* stream is consumed, the frame's message is the only event, and the
\* transport is running
C16_Witness ==
  /\ Len(segments) = 2
  /\ segments[1].kind = "junk"
  /\ segments[2].kind = "frame"
  /\ stdin = <<>>
  /\ inputBuffer = <<>>
  /\ Len(events) = 1
  /\ events[1].type = "message"
  /\ events[1].parsed = segments[2].msg
  /\ ~transportDown

\* C27: after discarding a malformed header the codec goes on scanning what
\* it has buffered: when a processing pass discards a header section, no
\* complete well-formed frame is left at the head of the buffer at the end
\* of the pass (such a frame has been emitted in the pass)
C27_ScanContinuesAfterDiscard ==
  [][(stdin' # stdin /\ ~transportDown) =>
       \A buf \in {inputBuffer \o SubSeq(stdin, 1, Len(stdin) - Len(stdin'))} :
         \A reached \in {LastCall(buf)} :
           MalformedHeader(reached) => ~extractMessage(inputBuffer').found]_vars

\* C5: a stream of frames written by the adapter's own encoder, delivered in
\* chunks of any sizes, is decoded into exactly the framed messages, each
\* once and in order, and into nothing else.
C5_RoundTrip ==
  AllFrames =>
    /\ \A k \in 1..Len(events) : events[k].type = "message"
    /\ IsPrefix(EmittedMessages, SentMessages)
    /\ (stdin = <<>> /\ ~transportDown) => EmittedMessages = SentMessages

(***************************************************************************)
(* MCPServer: add_file / generate_initial_context and the creation lock.   *)
(* The project id is fixed by the configuration, so a lock key is a        *)
(* filename.  Every step below runs from one backend reply (or from the    *)
(* tool call) to the next await of a backend call; the continuations that  *)
(* a settled creation promise wakes (the creator's finally and the         *)
(* waiters' listing requests) run as microtasks of the same step.          *)
(***************************************************************************)
Tools == {"add_file", "generate_initial_context"}
\* the tool calls made, all for one lock key: add_file names the file that
\* generate_initial_context creates when it is given no filename
ToolCalls == [tool : Tools, filename : Filenames]
\* what a backend listing can answer: the names it shows, or an error
ListingAnswers ==
  {[ok |-> TRUE, names |-> n] : n \in SUBSET ContextNames}
    \cup {[ok |-> FALSE, names |-> {}]}
\* a listing shows only names the backend has, possibly not all of them
CanAnswer(answer) == answer.names \subseteq backendFiles
ListingShowsNever(answer, f) == FALSE
\* contexts.find(c => c?.name === filename)
ListingShows(answer, f) == answer.ok /\ f \in answer.names
preCheckExistingIgnored(answer, f) == FALSE
\* performActualFileCreation: what the final pre-check found; a pre-check
\* that threw is caught and leaves nothing found
preCheckExisting(answer, f) == ListingShows(answer, f)
\* the answer is an error or does not show all the files the backend has
Inaccurate(answer) == ~answer.ok \/ answer.names # backendFiles
InProgress(c) == callers[c].pc \notin {"idle", "done"}

HasLockNever(lockMap, f) == FALSE
\* MCPServer.globalFileCreationLocks.has(lockKey)
HasLock(lockMap, f) == lockMap[f] # 0

\* the creation promise is created and stored: performActualFileCreation
\* (add_file) or performInitialContextCreation (generate_initial_context)
\* runs to its first await, a listing request, and the promise is set as
\* the lock entry
BeginCreation(cs, c) ==
  /\ callers' = [cs EXCEPT ![c].pc =
                   IF cs[c].tool = "add_file" THEN "precheck" ELSE "initialList"]
  /\ globalFileCreationLocks' =
       [globalFileCreationLocks EXCEPT ![cs[c].filename] = c]

LockDeleteNothing(lockMap, f) == lockMap
\* MCPServer.globalFileCreationLocks.delete(lockKey)
LockDelete(lockMap, f) == [lockMap EXCEPT ![f] = 0]

\* the creation promise of c settles with `result`: c's finally deletes the
\* entry stored under its key and c returns; every call awaiting the
\* promise resumes and requests the listing
Finish(c, result) ==
  /\ callers' = [d \in 1..MaxCallers |->
                   IF d = c THEN [callers[d] EXCEPT !.pc = "done", !.result = result]
                   ELSE IF callers[d].pc = "waitLock" /\ callers[d].waitsFor = c
                   THEN [callers[d] EXCEPT !.pc = "listing", !.waitsFor = 0]
                   ELSE callers[d]]
  /\ globalFileCreationLocks' =
       LockDelete(globalFileCreationLocks, callers[c].filename)

\* handleAddFile -> performFileCreation, or handleGenerateInitialContext,
\* up to the first await
StartCall(c, tool, f) ==
  /\ callers[c].pc = "idle"
  /\ \A d \in 1..(c - 1) : callers[d].pc # "idle"
  /\ [tool |-> tool, filename |-> f] \in ToolCalls
  /\ LET pending == {d \in 1..MaxCallers : InProgress(d) /\ callers[d].filename = f}
         started == [callers[c] EXCEPT
                       !.tool = tool, !.filename = f,
                       !.arrivedDuring =
                          IF pending = {} THEN 0
                          ELSE CHOOSE d \in pending : \A e \in pending : d <= e]
     IN IF HasLock(globalFileCreationLocks, f)
        THEN /\ callers' = [callers EXCEPT ![c] =
                  [started EXCEPT !.pc = "waitLock",
                                  !.waitsFor = globalFileCreationLocks[f]]]
             /\ UNCHANGED globalFileCreationLocks
        ELSE BeginCreation([callers EXCEPT ![c] = started], c)
  /\ UNCHANGED <<backendFiles, posts, disturbed, codecVars, transportDown, rpcVars, sessionVars, auxVars>>

\* the listing requested after waiting for the lock is answered
ListingReply(c, answer) ==
  /\ callers[c].pc = "listing"
  /\ answer \in ListingAnswers
  /\ CanAnswer(answer)
  /\ disturbed' = (disturbed \/ Inaccurate(answer))
  /\ IF ListingShows(answer, callers[c].filename)
     THEN /\ callers' = [callers EXCEPT ![c].pc = "done", ![c].result = "exists"]
          /\ UNCHANGED globalFileCreationLocks
     ELSE BeginCreation(callers, c)
  /\ UNCHANGED <<backendFiles, posts, codecVars, transportDown, rpcVars, sessionVars, auxVars>>

HasContextsNever(answer) == FALSE
\* Array.isArray(contexts) && contexts.length > 0
HasContexts(answer) == answer.ok /\ answer.names # {}

\* performInitialContextCreation: its listing is answered
InitialListReply(c, answer) ==
  /\ callers[c].pc = "initialList"
  /\ answer \in ListingAnswers
  /\ CanAnswer(answer)
  /\ disturbed' = (disturbed \/ Inaccurate(answer))
  /\ IF HasContexts(answer)
     THEN Finish(c, IF ListingShows(answer, callers[c].filename)
                    THEN "exists" ELSE "skipped")
     ELSE /\ callers' = [callers EXCEPT ![c].pc = "precheck"]
          /\ UNCHANGED globalFileCreationLocks
  /\ UNCHANGED <<backendFiles, posts, codecVars, transportDown, rpcVars, sessionVars, auxVars>>

\* performActualFileCreation: the final pre-check listing is answered; the
\* POST is issued unless the listing shows the file
PrecheckReply(c, answer) ==
  /\ callers[c].pc = "precheck"
  /\ answer \in ListingAnswers
  /\ CanAnswer(answer)
  /\ disturbed' = (disturbed \/ Inaccurate(answer))
  /\ IF preCheckExisting(answer, callers[c].filename)
     THEN /\ Finish(c, "exists")
          /\ UNCHANGED posts
     ELSE /\ callers' = [callers EXCEPT ![c].pc = "posting"]
          /\ posts' = [posts EXCEPT ![callers[c].filename] = @ + 1]
          /\ UNCHANGED globalFileCreationLocks
  /\ UNCHANGED <<backendFiles, codecVars, transportDown, rpcVars, sessionVars, auxVars>>

\* the POST is answered: created, 409 (only for a name the backend has), or
\* another failure
PostReply(c, outcome) ==
  /\ callers[c].pc = "posting"
  /\ outcome \in {"created", "conflict", "error"}
  /\ outcome = "conflict" => callers[c].filename \in backendFiles
  /\ CASE outcome = "created" ->
            /\ backendFiles' = backendFiles \cup {callers[c].filename}
            /\ Finish(c, "added")
            /\ UNCHANGED disturbed
       [] outcome = "conflict" ->
            /\ callers' = [callers EXCEPT ![c].pc = "conflictList"]
            /\ disturbed' = TRUE
            /\ UNCHANGED <<backendFiles, globalFileCreationLocks>>
       [] outcome = "error" ->
            /\ Finish(c, "error")
            /\ disturbed' = TRUE
            /\ UNCHANGED backendFiles
  /\ UNCHANGED <<posts, codecVars, transportDown, rpcVars, sessionVars, auxVars>>

\* what the backend can answer to the POST: its status and whether the
\* message, error or detail of an error body contains 'already exists'
PostReplies ==
  {[status |-> 201, alreadyExists |-> FALSE],
   [status |-> 409, alreadyExists |-> FALSE],
   [status |-> 400, alreadyExists |-> TRUE],
   [status |-> 500, alreadyExists |-> FALSE]}
isDuplicateByStatus(reply) == reply.status = 409
\* the test of the inner catch: 409, or a body that says 'already exists'
isDuplicate(reply) == reply.status = 409 \/ reply.alreadyExists
\* axios resolves on a 2xx status and rejects otherwise
OutcomeOf(reply) ==
  IF reply.status \in 200..299 THEN "created"
  ELSE IF isDuplicate(reply) THEN "conflict"
  ELSE "error"
\* the POST is answered with reply
PostAnswered(c, reply) == PostReply(c, OutcomeOf(reply))

\* the listing fetched after a conflict is answered
ConflictListReply(c, answer) ==
  /\ callers[c].pc = "conflictList"
  /\ answer \in ListingAnswers
  /\ CanAnswer(answer)
  /\ disturbed' = (disturbed \/ Inaccurate(answer))
  /\ Finish(c, IF ListingShows(answer, callers[c].filename)
               THEN "exists" ELSE "conflict resolved")
  /\ UNCHANGED <<backendFiles, posts, codecVars, transportDown, rpcVars, sessionVars, auxVars>>

\* the project starts without the file the calls name; it may hold others
DedupInit ==
  /\ CodecIdle
  /\ SessionIdle
  /\ AuxIdle
  /\ transportDown = FALSE
  /\ RpcIdle
  /\ callers = [c \in 1..MaxCallers |-> NoCaller]
  /\ globalFileCreationLocks = [f \in Filenames |-> 0]
  /\ backendFiles \in SUBSET (ContextNames \ Filenames)
  /\ posts = [f \in Filenames |-> 0]
  /\ disturbed = FALSE

DedupNext ==
  \/ \E c \in 1..MaxCallers, tool \in Tools, f \in Filenames : StartCall(c, tool, f)
  \/ \E c \in 1..MaxCallers, answer \in ListingAnswers : ListingReply(c, answer)
  \/ \E c \in 1..MaxCallers, answer \in ListingAnswers : InitialListReply(c, answer)
  \/ \E c \in 1..MaxCallers, answer \in ListingAnswers : PrecheckReply(c, answer)
  \/ \E c \in 1..MaxCallers, reply \in PostReplies : PostAnswered(c, reply)
  \/ \E c \in 1..MaxCallers, answer \in ListingAnswers : ConflictListReply(c, answer)

DedupSpec == DedupInit /\ [][DedupNext]_vars

(***************************************************************************)
(* Claims about the file-creation lock.                                    *)
(***************************************************************************)
PostsInFlight(f) ==
  {c \in 1..MaxCallers : callers[c].pc = "posting" /\ callers[c].filename = f}
\* a is the first call made for its key
FirstOnKey(a) ==
  \A d \in 1..(a - 1) : callers[d].filename # callers[a].filename
\* b is an add_file call that arrived while the add_file call a, the first
\* for their key, was pending, and both have returned
OverlappingPair(a, b) ==
  /\ a # b
  /\ callers[a].tool = "add_file" /\ callers[b].tool = "add_file"
  /\ callers[a].filename = callers[b].filename
  /\ FirstOnKey(a)
  /\ callers[b].arrivedDuring = a
  /\ callers[a].pc = "done" /\ callers[b].pc = "done"

\* C2: for every lock key, at most one POST to the files endpoint is in
\* flight at any moment, whatever the callers and the backend's answers
C2_AtMostOnePostInFlight ==
  \A f \in Filenames : Cardinality(PostsInFlight(f)) <= 1

\* C3: when an add_file call arrives while the first add_file call for the
\* same key is pending, and the backend accepts the write and its listings
\* show what it holds, one POST is issued in total, the first call answers
\* 'File added successfully' and the second 'File already exists'
C3_OverlappingAddFileDedup ==
  \A a, b \in 1..MaxCallers :
    (OverlappingPair(a, b) /\ ~disturbed) =>
      /\ posts[callers[a].filename] = 1
      /\ callers[a].result = "added"
      /\ callers[b].result = "exists"
C3_Witness ==
  \E a, b \in 1..MaxCallers :
    /\ OverlappingPair(a, b)
    /\ ~disturbed
    /\ callers[a].result = "added"
    /\ callers[b].result = "exists"
    /\ posts[callers[a].filename] = 1

\* C15: a lock entry is removed when its creation settles, on every exit
\* path: an entry is always that of a call still in progress, so whenever
\* no add_file / generate_initial_context call is in progress the map of
\* pending creations is empty
C15_NoLockLeak ==
  /\ \A f \in Filenames :
       globalFileCreationLocks[f] # 0 => InProgress(globalFileCreationLocks[f])
  /\ (\A c \in 1..MaxCallers : ~InProgress(c)) =>
       \A f \in Filenames : globalFileCreationLocks[f] = 0
\* three creations have settled, by success, by a handled conflict and by
\* a failure, and nothing is in progress
C15_Witness ==
  /\ \A c \in 1..MaxCallers : ~InProgress(c)
  /\ \E c \in 1..MaxCallers : callers[c].result = "added"
  /\ \E c \in 1..MaxCallers : callers[c].result = "conflict resolved"
  /\ \E c \in 1..MaxCallers : callers[c].result = "error"
  /\ \A f \in Filenames : globalFileCreationLocks[f] = 0

\* call c is running a creation operation it registered
Creating(c) == callers[c].pc \in {"precheck", "initialList", "posting", "conflictList"}

\* C25: a registration never overwrites a pending entry: whenever a call
\* stores its creation promise under a key, the map held no entry for
\* that key, whatever the number of callers and whether or not the call
\* first waited on an earlier operation
C25_RegistrationNeverOverwrites ==
  [][\A f \in Filenames :
       (/\ globalFileCreationLocks'[f] # 0
        /\ globalFileCreationLocks'[f] # globalFileCreationLocks[f]) =>
         globalFileCreationLocks[f] = 0]_vars

\* C26: the settling of one call never deletes the entry of another
\* creation that is still running: while a creation for a key is running
\* the map holds an entry for the key, so no caller observes 'no pending
\* operation' during it
C26_OnlyOwnEntryRemoved ==
  \A c \in 1..MaxCallers :
    Creating(c) => globalFileCreationLocks[callers[c].filename] # 0

\* the answer is a listing that contains the name f
Contains(answer, f) == answer.ok /\ f \in answer.names

\* C29: a call that finds a pending creation for its key waits until that
\* creation settles and then requests the listing; when the listing
\* contains the filename the call returns 'already exists' and starts no
\* creation: no pre-check is requested, no POST is issued and no entry is
\* registered for it
C29_WaiterReportsExisting ==
  [][\A c \in 1..MaxCallers :
       /\ (callers[c].pc = "waitLock" /\ callers'[c].pc # "waitLock") =>
            /\ callers'[c].pc = "listing"
            /\ callers'[callers[c].waitsFor].pc = "done"
       /\ callers[c].pc = "listing" =>
            \A answer \in ListingAnswers :
              (ListingReply(c, answer) /\ Contains(answer, callers[c].filename)) =>
                /\ callers'[c].pc = "done"
                /\ callers'[c].result = "exists"
                /\ posts' = posts
                /\ globalFileCreationLocks' = globalFileCreationLocks]_vars
\* the second of two calls arrived while the first was creating the file,
\* waited, and returned 'already exists'; the only POST is the first's
C29_Witness ==
  /\ callers[1].pc = "done" /\ callers[1].result = "added"
  /\ callers[2].pc = "done" /\ callers[2].result = "exists"
  /\ callers[2].arrivedDuring = 1
  /\ callers[2].filename = callers[1].filename
  /\ callers[3].pc = "idle"
  /\ posts[callers[1].filename] = 1

\* C30: the creation operation checks the listing again right before the
\* write: when the listing contains the filename the call returns 'already
\* exists', not an error, and issues no POST; a POST is issued only by a
\* call whose pre-check did not find the filename or failed
C30_PreCheckBeforeWrite ==
  [][/\ \A c \in 1..MaxCallers :
          callers[c].pc = "precheck" =>
            \A answer \in ListingAnswers :
              (PrecheckReply(c, answer) /\ Contains(answer, callers[c].filename)) =>
                /\ callers'[c].pc = "done"
                /\ callers'[c].result = "exists"
                /\ posts' = posts
     /\ posts' # posts =>
          \E c \in 1..MaxCallers, answer \in ListingAnswers :
            /\ callers[c].pc = "precheck"
            /\ callers'[c].pc = "posting"
            /\ CanAnswer(answer)
            /\ ~Contains(answer, callers[c].filename)
            /\ posts' = [posts EXCEPT ![callers[c].filename] = @ + 1]]_vars
\* an add_file call made after the file was created, with no creation
\* pending, found the file in its pre-check and returned 'already exists';
\* the only POST is that of the call that created the file
C30_Witness ==
  /\ callers[1].pc = "done" /\ callers[1].result = "added"
  /\ callers[2].tool = "add_file"
  /\ callers[2].pc = "done" /\ callers[2].result = "exists"
  /\ callers[2].arrivedDuring = 0
  /\ callers[2].filename = callers[1].filename
  /\ posts[callers[1].filename] = 1

\* C31: a conflict reported by the backend on the write (status 409, or an
\* error body that says 'already exists') is never returned as an error:
\* the call fetches the listing and returns a result that is not an error,
\* 'already exists' when the listing contains the filename
C31_ConflictIsNotAnError ==
  [][\A c \in 1..MaxCallers :
       /\ callers[c].pc = "posting" =>
            \A reply \in PostReplies :
              (PostAnswered(c, reply)
                 /\ (reply.status = 409 \/ reply.alreadyExists)) =>
                callers'[c].pc = "conflictList"
       /\ callers[c].pc = "conflictList" =>
            \A answer \in ListingAnswers :
              ConflictListReply(c, answer) =>
                /\ callers'[c].pc = "done"
                /\ callers'[c].result \in {"exists", "conflict resolved"}
                /\ Contains(answer, callers[c].filename) =>
                     callers'[c].result = "exists"]_vars
\* the second call's POST met the file the first call had created: two
\* POSTs were issued and the second call returned 'already exists'
C31_Witness ==
  /\ callers[1].pc = "done" /\ callers[1].result = "added"
  /\ callers[2].pc = "done" /\ callers[2].result = "exists"
  /\ callers[2].filename = callers[1].filename
  /\ posts[callers[1].filename] = 2

\* C40: generate_initial_context issues no POST when the listing it
\* fetches is not empty: it returns 'already exists' when the listing
\* contains the target name and 'skipped' otherwise, neither an error; its
\* creation goes on to the pre-check and the POST only from a listing
\* that was empty or failed
C40_NoPostWhenListingNonEmpty ==
  [][\A c \in 1..MaxCallers :
       callers[c].tool = "generate_initial_context" =>
         /\ callers[c].pc = "initialList" =>
              \A answer \in ListingAnswers :
                InitialListReply(c, answer) =>
                  IF answer.ok /\ answer.names # {}
                  THEN /\ callers'[c].pc = "done"
                       /\ callers'[c].result =
                            IF callers[c].filename \in answer.names
                            THEN "exists" ELSE "skipped"
                       /\ posts' = posts
                  ELSE callers'[c].pc = "precheck" /\ posts' = posts
         /\ (callers'[c].pc = "precheck" /\ callers[c].pc # "precheck") =>
              callers[c].pc = "initialList"
         /\ (callers'[c].pc = "posting" /\ callers[c].pc # "posting") =>
              callers[c].pc = "precheck"]_vars
\* the project holds another file: generate_initial_context listed it,
\* returned 'skipped' and no POST was issued
C40_Witness ==
  /\ callers[1].tool = "generate_initial_context"
  /\ callers[1].pc = "done" /\ callers[1].result = "skipped"
  /\ callers[2].pc = "idle"
  /\ backendFiles # {}
  /\ posts[callers[1].filename] = 0

(***************************************************************************)
(* SessionSpec: the session state of MethodDispatcher under a clock.  The  *)
(* constructor arms the fallback timer, so time 0 is the construction and  *)
(* the timer is due at INITIALIZATION_TIMEOUT_MS.  A timer that is due     *)
(* fires before the clock moves on.                                        *)
(***************************************************************************)
INITIALIZATION_TIMEOUT_MS == 15000
\* the clock is observed up to this time
MaxNow == 30000
\* most handleInitialized calls awaiting their log POST at once
MaxLogPosts == 2
\* the steps by which the clock advances
Delays == {5000, 15000}

rpcRest == <<calls, inLoop, microtasks, pendingRequests, requestTimers, timedOut,
             shutdownPc, shutdownCause, shutdownVisited, pendingAtShutdown,
             dispatched, stdout>>
otherVars == <<codecVars, transportDown, rpcRest, dedupVars, auxVars>>

\* the fallback timer is armed and its delay has elapsed
TimerDue == initializationTimeout = "armed" /\ now >= INITIALIZATION_TIMEOUT_MS

AssumeReadyNoop(initialized) == initialized
\* the timer callback: if (!this.isInitialized) { ...; this.isInitialized = true }
AssumeReady(initialized) == IF ~initialized THEN TRUE ELSE initialized

AfterInitializeReset(initialized) == FALSE
\* handleInitialize builds its result from the request and the
\* configuration and assigns no field: isInitialized is what it was
AfterInitialize(initialized) == initialized

ProceedsWhenReady(method, initialized) ==
  initialized \/ method \in {"initialize", "initialized"}
\* MethodDispatcher.handleRequest: a method other than initialize and
\* initialized that arrives before initialization is warned about and
\* dispatched all the same
Proceeds(method, initialized) == TRUE

\* RpcHandler.handleMessage hands a message to the dispatcher unless the
\* handler is shutting down
Dispatches(method) == ~isShuttingDown /\ Proceeds(method, isInitialized)

Tick(d) ==
  /\ exitCode = Running
  /\ d \in Delays
  /\ now + d <= MaxNow
  /\ initializationTimeout = "armed" => now + d <= INITIALIZATION_TIMEOUT_MS
  /\ now' = now + d
  /\ UNCHANGED <<isInitialized, initializationTimeout, logPosts, initializeAt,
                 notifiedInWindow, lastToolsCall, isShuttingDown, exitCode, otherVars>>

\* the callback of the constructor's setTimeout runs
FallbackTimeout ==
  /\ exitCode = Running
  /\ TimerDue
  /\ isInitialized' = AssumeReady(isInitialized)
  /\ initializationTimeout' = "fired"
  /\ UNCHANGED <<now, logPosts, initializeAt, notifiedInWindow, lastToolsCall,
                 isShuttingDown, exitCode, otherVars>>

\* an initialize request arrives and is dispatched to handleInitialize,
\* which changes nothing of the session
InitializeRequest ==
  /\ exitCode = Running
  /\ Dispatches("initialize")
  /\ initializeAt' = IF initializeAt = {} THEN {now} ELSE initializeAt
  /\ isInitialized' = AfterInitialize(isInitialized)
  /\ UNCHANGED <<now, initializationTimeout, logPosts,
                 notifiedInWindow, lastToolsCall, isShuttingDown, exitCode, otherVars>>

\* an initialized notification arrives: handleInitialized up to its await of
\* the log POST
InitializedNotification ==
  /\ exitCode = Running
  /\ Dispatches("initialized")
  /\ logPosts < MaxLogPosts
  /\ logPosts' = logPosts + 1
  /\ notifiedInWindow' =
       (notifiedInWindow
          \/ \E t \in initializeAt : now <= t + INITIALIZATION_TIMEOUT_MS)
  /\ UNCHANGED <<now, isInitialized, initializationTimeout, initializeAt,
                 lastToolsCall, isShuttingDown, exitCode, otherVars>>

\* the log POST of a handleInitialized call settles: the session is marked
\* initialized and the timer cleared
InitializedLogged ==
  /\ exitCode = Running
  /\ logPosts > 0
  /\ logPosts' = logPosts - 1
  /\ isInitialized' = TRUE
  /\ initializationTimeout' = NULL
  /\ UNCHANGED <<now, initializeAt, notifiedInWindow, lastToolsCall,
                 isShuttingDown, exitCode, otherVars>>

\* a tools/call request arrives
ToolsCall ==
  /\ exitCode = Running
  /\ lastToolsCall' = [seen |-> TRUE, at |-> now, shuttingDown |-> isShuttingDown,
                       initialized |-> isInitialized,
                       processed |-> Dispatches("tools/call")]
  /\ UNCHANGED <<now, isInitialized, initializationTimeout, logPosts, initializeAt,
                 notifiedInWindow, isShuttingDown, exitCode, otherVars>>

\* RpcHandler.shutdown begins
SessionShutdown ==
  /\ exitCode = Running
  /\ ~isShuttingDown
  /\ isShuttingDown' = TRUE
  /\ UNCHANGED <<sessionVars, exitCode, otherVars>>

\* RpcHandler.shutdown reaches process.exit(0)
SessionExit ==
  /\ exitCode = Running
  /\ isShuttingDown
  /\ exitCode' = "0"
  /\ UNCHANGED <<sessionVars, isShuttingDown, otherVars>>

SessionNext ==
  \/ \E d \in Delays : Tick(d)
  \/ FallbackTimeout
  \/ InitializeRequest
  \/ InitializedNotification
  \/ InitializedLogged
  \/ ToolsCall
  \/ SessionShutdown
  \/ SessionExit

SessionSpec == Init /\ [][SessionNext]_vars

\* the timeout counted from the initialize request has elapsed with no
\* initialized notification in it, and no due timer is still to run
FallbackElapsed(at) ==
  \E t \in initializeAt :
    /\ at >= t + INITIALIZATION_TIMEOUT_MS
    /\ ~notifiedInWindow

\* C10: once 15,000 ms have passed since the initialize request without an
\* initialized notification, isReady() is true for as long as the process
\* runs, and a tools/call request arriving from then on (while the server
\* is not shutting down) is processed
C10_FallbackMakesReady ==
  /\ (exitCode = Running /\ FallbackElapsed(now) /\ ~TimerDue) => isInitialized
  /\ (lastToolsCall.seen /\ FallbackElapsed(lastToolsCall.at)
        /\ ~lastToolsCall.shuttingDown) => lastToolsCall.processed
C10_Witness ==
  /\ exitCode = Running
  /\ FallbackElapsed(now)
  /\ initializationTimeout = "fired"
  /\ isInitialized
  /\ lastToolsCall.seen /\ FallbackElapsed(lastToolsCall.at)
  /\ lastToolsCall.initialized /\ lastToolsCall.processed

\* C28: the session is never ready before an initialize request has been
\* received: the fallback timer is armed by the initialize request, and
\* isReady() becomes true only after an initialize request, by the
\* initialized notification or by the timer
C28_ReadyOnlyAfterInitialize ==
  isInitialized => initializeAt # {}

\* C36: the session only moves forward: once isReady() is true it stays
\* true whatever arrives, a repeated initialize included, and once
\* shutdown has begun the shutting-down flag is never cleared
C36_SessionMovesForward ==
  [][/\ isInitialized => isInitialized'
     /\ isShuttingDown => isShuttingDown']_vars
\* the fallback timer made the session ready at 15,000 ms; an initialize
\* request arrived after that, shutdown has begun, and the session is ready
C36_Witness ==
  /\ initializationTimeout = "fired"
  /\ \E t \in initializeAt : t > INITIALIZATION_TIMEOUT_MS
  /\ isInitialized
  /\ isShuttingDown

(***************************************************************************)
(* HandlerSpec: one request taken through a method handler, by either of   *)
(* the two servers of the repository: RpcHandler + MethodDispatcher        *)
(* ("dispatcher") or MCPServer on the SDK's Server ("server").  Arguments  *)
(* are abstracted to what the handlers test of them, and a backend call to *)
(* how it ends.                                                            *)
(***************************************************************************)
INVALID_REQUEST == -32600
METHOD_NOT_FOUND == -32601
INVALID_PARAMS == -32602
INTERNAL_ERROR == -32603
SERVER_ERROR == -32000
UNAUTHORIZED == -32001
FORBIDDEN == -32002
NOT_FOUND == -32003
RATE_LIMITED == -32004
SERVICE_UNAVAILABLE == -32005
\* config.timeout when nothing sets it
DEFAULT_TIMEOUT == 30000

\* identifiers a client can put in an argument or a URI: the configured
\* project's UUID, another UUID, a text that is no UUID, or none at all
IdArgs == {"absent", "malformed", "configured", "other"}
\* UUID_REGEX.test(id), after the !id check
IsUuid(id) == id \in {"configured", "other"}
\* string arguments: missing, present but not a non-empty string, or fine
StringArgs == {"absent", "invalid", "valid"}
\* !arg || typeof arg !== 'string'
BadString(arg) == arg # "valid"
\* !arg alone: a truthy value of another type passes
Falsy(arg) == arg = "absent"

\* how a backend call ends: a 2xx reply, no connection, no reply within the
\* per-call timeout, or a non-2xx status; a write can also meet a 409
Outcomes == {"ok", "network", "timeout", "status"}
WriteOutcomes == Outcomes \cup {"conflict"}
\* the per-call timeouts configured, and the time a call takes when it
\* does not time out
HttpTimeouts == {5000, DEFAULT_TIMEOUT}
FastMs == 100
Duration(outcome, timeoutMs) == IF outcome = "timeout" THEN timeoutMs ELSE FastMs

\* what a handler does: throws an error object, or returns a payload
Threw(code, message) ==
  [threw |-> TRUE, code |-> code, isError |-> FALSE, toolResult |-> FALSE,
   message |-> message, protocolVersion |-> NULL, resources |-> <<>>]
ToolResult(isError, text) ==
  [threw |-> FALSE, code |-> 0, isError |-> isError, toolResult |-> TRUE,
   message |-> text, protocolVersion |-> NULL, resources |-> <<>>]
Payload(text, version, resources) ==
  [threw |-> FALSE, code |-> 0, isError |-> FALSE, toolResult |-> FALSE,
   message |-> text, protocolVersion |-> version, resources |-> resources]

\* MethodDispatcher.callGetContexts
callGetContexts(r) ==
  IF ~IsUuid(r.project_id)
  THEN Threw(INVALID_PARAMS, "Invalid or missing project_id")
  ELSE IF r.get = "ok" THEN ToolResult(FALSE, "Found context file(s)")
  ELSE ToolResult(TRUE, "Error getting contexts")

\* MethodDispatcher.callGetFile
callGetFile(r) ==
  IF ~IsUuid(r.project_id)
  THEN Threw(INVALID_PARAMS, "Invalid or missing project_id")
  ELSE IF ~IsUuid(r.file_id)
  THEN Threw(INVALID_PARAMS, "Invalid or missing file_id")
  ELSE IF r.get = "ok" THEN ToolResult(FALSE, "File")
  ELSE ToolResult(TRUE, "Error getting file")

\* MethodDispatcher.callAddFile
callAddFile(r) ==
  IF ~IsUuid(r.project_id)
  THEN Threw(INVALID_PARAMS, "Invalid or missing project_id")
  ELSE IF BadString(r.filename)
  THEN Threw(INVALID_PARAMS, "Invalid or missing filename")
  ELSE IF BadString(r.content)
  THEN Threw(INVALID_PARAMS, "Invalid or missing file content")
  ELSE IF r.write = "ok" THEN ToolResult(FALSE, "File added successfully")
  ELSE ToolResult(TRUE, "Error adding file")

\* MethodDispatcher.handleToolsCall, after its log POST: the tool is
\* looked up and called; what a tool throws is rethrown
handleToolsCall(r) ==
  IF r.tool = NULL
  THEN Threw(INVALID_PARAMS, "Missing or invalid tool name")
  ELSE CASE r.tool = "get_contexts" -> callGetContexts(r)
         [] r.tool = "get_file" -> callGetFile(r)
         [] r.tool = "add_file" -> callAddFile(r)
         [] OTHER -> Threw(METHOD_NOT_FOUND, "Unknown tool")

\* what the backend's listing holds when it answers: nothing, other files
\* only, or the file the call names
Listings == {"empty", "others", "has-file"}
\* contexts.find(c => c?.name === filename) on the reply of a listing call
Existing(r) == r.get = "ok" /\ r.listing = "has-file"

\* MCPServer.handleGetContexts
handleGetContexts(r) ==
  IF r.get = "ok" THEN ToolResult(FALSE, "contexts")
  ELSE ToolResult(TRUE, "Error getting contexts")

\* MCPServer.handleGetFile: file_id goes into the path as it is
handleGetFile(r) ==
  IF r.get = "ok" THEN ToolResult(FALSE, "file content")
  ELSE ToolResult(TRUE, "Error getting file")

\* MCPServer.performActualFileCreation for a call that meets no other
performActualFileCreation(r) ==
  IF Existing(r) THEN ToolResult(FALSE, "File already exists")
  ELSE CASE r.write = "ok" -> ToolResult(FALSE, "File added successfully")
         [] r.write = "conflict" ->
              IF Existing(r) THEN ToolResult(FALSE, "File already exists")
              ELSE ToolResult(FALSE, "File creation conflict resolved")
         [] OTHER -> ToolResult(TRUE, "Error adding file")

\* MCPServer.handleAddFile -> performFileCreation with no creation pending
handleAddFile(r) == performActualFileCreation(r)

\* MCPServer.handleGenerateInitialContext -> performInitialContextCreation
\* with no creation pending
handleGenerateInitialContext(r) ==
  IF r.get = "ok" /\ r.listing # "empty"
  THEN IF Existing(r) THEN ToolResult(FALSE, "Initial context already exists")
       ELSE ToolResult(FALSE, "Project already has context files; skipped")
  ELSE performActualFileCreation(r)

\* MCPServer.handleUpdateFile
handleUpdateFile(r) ==
  IF Falsy(r.file_id) \/ Falsy(r.filename) \/ Falsy(r.content)
  THEN ToolResult(TRUE, "Error: file_id, filename, and content are required")
  ELSE IF r.write = "ok" THEN ToolResult(FALSE, "File updated successfully")
  ELSE ToolResult(TRUE, "Error updating file")

\* MCPServer.handleDeleteFile
handleDeleteFile(r) ==
  IF Falsy(r.file_id)
  THEN ToolResult(TRUE, "Error: file_id is required")
  ELSE IF r.write = "ok" THEN ToolResult(FALSE, "File deleted successfully")
  ELSE ToolResult(TRUE, "Error deleting file")

\* the CallToolRequestSchema handler of MCPServer.setupHandlers
CallToolHandler(r) ==
  CASE r.tool = "get_contexts" -> handleGetContexts(r)
    [] r.tool = "get_file" -> handleGetFile(r)
    [] r.tool = "add_file" -> handleAddFile(r)
    [] r.tool = "generate_initial_context" -> handleGenerateInitialContext(r)
    [] r.tool = "update_file" -> handleUpdateFile(r)
    [] r.tool = "delete_file" -> handleDeleteFile(r)
    [] OTHER -> Threw(INTERNAL_ERROR, "Unknown tool")

\* handleInitialize: const supportedVersions
supportedVersions == <<"2024-11-05", "2024-10-07", "1.0.0">>
\* params?.protocolVersion: a known version, one the adapter does not know
\* (newer or older), or none
ClientVersions ==
  {supportedVersions[k] : k \in 1..Len(supportedVersions)}
    \cup {"2025-03-26", "0.9.0", NULL}
IncludesAlways(list, x) == TRUE
\* Array.prototype.includes
Includes(list, x) == \E k \in 1..Len(list) : list[k] = x

\* MethodDispatcher.handleInitialize
handleInitialize(r) ==
  LET clientVersion == r.version
      protocolVersion == IF Includes(supportedVersions, clientVersion)
                         THEN clientVersion ELSE supportedVersions[1]
  IN Payload("initialize", protocolVersion, <<>>)

\* URIs: cortex://project/<id>, or another scheme, or no uri at all
PROJECT_URI == "cortex://project/"
Uris == [scheme : {PROJECT_URI, "file://"}, id : IdArgs \ {"absent"}]
          \cup {[scheme |-> "none", id |-> "absent"]}
\* the resource of the configured project
ProjectResource == [scheme |-> PROJECT_URI, id |-> "configured"]
\* params.uri.match(/^cortex:\/\/project\/([0-9a-f\-]{36})$/i): a UUID is
\* 36 characters of hex digits and dashes
UriMatch(uri) == uri.scheme = PROJECT_URI /\ IsUuid(uri.id)

\* MethodDispatcher.handleResourcesList and the ListResourcesRequestSchema
\* handler of MCPServer
handleResourcesList(r) == Payload("resources", NULL, <<ProjectResource>>)

\* MethodDispatcher.handleResourcesRead: the project whose listing is read
ReadProject(r) == IF UriMatch(r.uri) THEN r.uri.id ELSE "configured"
handleResourcesRead(r) ==
  IF r.get = "ok" THEN Payload("contents", NULL, <<>>)
  ELSE Threw(INTERNAL_ERROR, "Failed to read resource")

\* the ReadResourceRequestSchema handler of MCPServer
ReadResourceHandler(r) ==
  IF r.uri # ProjectResource THEN Threw(INTERNAL_ERROR, "Resource not found")
  ELSE IF r.get = "ok" THEN Payload("contents", NULL, <<>>)
  ELSE Threw(INTERNAL_ERROR, "Failed to read resource")

\* the requests considered; a field a handler does not read keeps the
\* value it has here
BlankRequest ==
  [impl |-> "dispatcher", method |-> "tools/call", tool |-> NULL,
   project_id |-> "absent", file_id |-> "absent", filename |-> "absent",
   content |-> "absent", version |-> NULL,
   uri |-> [scheme |-> "none", id |-> "absent"],
   get |-> "ok", write |-> "ok", listing |-> "empty",
   timeoutMs |-> DEFAULT_TIMEOUT]
DispatcherTools == {"get_contexts", "get_file", "add_file"}
ServerTools == DispatcherTools \cup {"generate_initial_context", "update_file", "delete_file"}
ToolsCallRequests ==
  {[BlankRequest EXCEPT !.tool = t, !.project_id = p, !.file_id = f,
                        !.filename = n, !.content = c, !.get = g, !.write = w,
                        !.timeoutMs = ms] :
     t \in DispatcherTools \cup {"update_file", NULL},
     p \in IdArgs, f \in IdArgs \ {"configured"},
     n \in StringArgs, c \in StringArgs,
     g \in Outcomes, w \in WriteOutcomes, ms \in HttpTimeouts}
  \cup
  {[BlankRequest EXCEPT !.impl = "server", !.tool = t, !.file_id = f,
                        !.filename = n, !.content = c, !.get = g, !.write = w,
                        !.listing = l] :
     t \in ServerTools \cup {"unknown_tool", NULL},
     f \in IdArgs \ {"configured"},
     n \in StringArgs, c \in StringArgs,
     \* axios is created without a timeout
     g \in Outcomes \ {"timeout"}, w \in WriteOutcomes \ {"timeout"},
     l \in Listings}
InitializeRequests ==
  {[BlankRequest EXCEPT !.method = "initialize", !.version = v, !.write = w,
                        !.timeoutMs = ms] :
     v \in ClientVersions, w \in Outcomes, ms \in HttpTimeouts}
ResourceRequests ==
  {[BlankRequest EXCEPT !.impl = i, !.method = m, !.uri = u, !.get = g] :
     i \in {"dispatcher", "server"}, m \in {"resources/list", "resources/read"},
     u \in Uris, g \in Outcomes \ {"timeout"}}
Requests == ToolsCallRequests \cup InitializeRequests \cup ResourceRequests

\* the handler a request reaches, and what it does
Handle(r) ==
  IF r.impl = "dispatcher"
  THEN CASE r.method = "initialize" -> handleInitialize(r)
         [] r.method = "resources/list" -> handleResourcesList(r)
         [] r.method = "resources/read" -> handleResourcesRead(r)
         [] OTHER -> handleToolsCall(r)
  ELSE CASE r.method = "resources/list" -> handleResourcesList(r)
         [] r.method = "resources/read" -> ReadResourceHandler(r)
         [] OTHER -> CallToolHandler(r)

\* the projects whose listing the handler asks the backend for
Queried(r) ==
  IF r.impl = "dispatcher"
  THEN CASE r.method = "resources/read" -> {ReadProject(r)}
         [] r.method = "tools/call" /\ r.tool = "get_contexts" /\ IsUuid(r.project_id) ->
              {r.project_id}
         [] OTHER -> {}
  ELSE CASE r.method = "resources/read" /\ r.uri = ProjectResource -> {"configured"}
         [] r.method = "tools/call"
              /\ r.tool \in {"get_contexts", "add_file", "generate_initial_context"} ->
              {"configured"}
         [] OTHER -> {}

\* the time the dispatcher takes over a request: its awaited backend calls,
\* log POSTs included
LogMs(r) == Duration(IF r.write = "conflict" THEN "ok" ELSE r.write, r.timeoutMs)
ToolMs(r) ==
  IF handleToolsCall(r).threw THEN 0
  ELSE Duration(IF r.tool = "add_file" THEN r.write ELSE r.get, r.timeoutMs)
Elapsed(r) ==
  CASE r.method = "initialize" -> LogMs(r) + LogMs(r)
    [] r.method = "resources/list" -> 0
    [] r.method = "resources/read" -> Duration(r.get, r.timeoutMs)
    [] OTHER -> LogMs(r) + ToolMs(r) + LogMs(r)

\* the JSON-RPC envelope for what the handler did: RpcHandler.handleRequest
\* (mapToJsonRpcError keeps the code and message of a thrown error object),
\* and the SDK's Server for MCPServer
Envelope(o) ==
  [kind |-> IF o.threw THEN "error" ELSE "result", code |-> o.code,
   isError |-> o.isError, toolResult |-> o.toolResult, message |-> o.message,
   protocolVersion |-> o.protocolVersion, resources |-> o.resources]
RequestTimeoutEnvelope == Envelope(Threw(SERVER_ERROR, "Request timeout"))
\* the envelopes written: the request timer of RpcHandler.handleRequest is
\* armed before any timer of the call, so it fires first when the call
\* takes the timer's delay or longer
Responses(r) ==
  IF r.impl = "dispatcher" /\ Elapsed(r) >= REQUEST_TIMEOUT_MS
  THEN <<RequestTimeoutEnvelope, Envelope(Handle(r))>>
  ELSE <<Envelope(Handle(r))>>

\* a request arrives and is handled to its end
HandleRequest(r) ==
  /\ request = NoRequest
  /\ r \in Requests
  /\ request' = r
  /\ responses' = Responses(r)
  /\ queries' = Queried(r)
  /\ UNCHANGED <<codecVars, transportDown, rpcVars, dedupVars, sessionVars,
                 httpVars, retryVars, utilVars>>

\* one request is handled in a run
HandlerNext == request = NoRequest /\ \E r \in Requests : HandleRequest(r)
HandlerSpec == Init /\ [][HandlerNext]_vars

\* the request names a tool the server has and gives it what it requires
WellFormed(r) ==
  IF r.impl = "dispatcher"
  THEN /\ r.tool \in DispatcherTools
       /\ IsUuid(r.project_id)
       /\ r.tool = "get_file" => IsUuid(r.file_id)
       /\ r.tool = "add_file" => (r.filename = "valid" /\ r.content = "valid")
  ELSE /\ r.tool \in ServerTools
       /\ r.tool \in {"get_file", "update_file", "delete_file"} => IsUuid(r.file_id)
       /\ r.tool \in {"add_file", "update_file"} => r.filename = "valid"
       /\ r.tool \in {"add_file", "update_file", "generate_initial_context"} =>
            r.content = "valid"
ToolsCallHandled == request # NoRequest /\ request.method = "tools/call"

\* C11: a tools/call with a tool name outside the tool set or a required
\* argument missing or invalid is answered with JSON-RPC error envelopes
\* only, never with a result carrying a tool result
C11_MalformedToolCallIsProtocolError ==
  (ToolsCallHandled /\ ~WellFormed(request)) =>
    \A k \in 1..Len(responses) :
      responses[k].kind = "error" /\ ~responses[k].toolResult

\* the backend call the tool's answer rests on is made and fails: no
\* connection, no reply within the per-call timeout, or a non-2xx status
BackendFailed(r) ==
  CASE r.tool \in {"get_contexts", "get_file"} -> r.get # "ok"
    [] r.tool \in {"update_file", "delete_file"} -> r.write # "ok"
    [] r.tool = "add_file" ->
         r.write # "ok" /\ (r.impl = "server" => ~Existing(r))
    [] r.tool = "generate_initial_context" ->
         r.write # "ok" /\ ~(r.get = "ok" /\ r.listing # "empty")
    [] OTHER -> FALSE

\* C12: a well-formed tools/call whose backend call fails is never answered
\* with a JSON-RPC error envelope: every response to it is a result whose
\* tool result has isError = true
C12_BackendFailureIsToolError ==
  (ToolsCallHandled /\ WellFormed(request) /\ BackendFailed(request)) =>
    \A k \in 1..Len(responses) :
      /\ responses[k].kind = "result"
      /\ responses[k].toolResult
      /\ responses[k].isError

\* the results the dispatcher returned for the request
Results == SelectSeq(responses, LAMBDA e : e.kind = "result")
\* C19: on initialize the dispatcher answers with the client's protocol
\* version when that is one of '2024-11-05', '2024-10-07', '1.0.0', and
\* with '2024-11-05' when it is another version or absent; the version
\* returned is always one of the three
C19_ProtocolVersionSelection ==
  (request # NoRequest /\ request.method = "initialize") =>
    /\ Len(Results) = 1
    /\ Results[1].protocolVersion \in {"2024-11-05", "2024-10-07", "1.0.0"}
    /\ Results[1].protocolVersion =
         IF request.version \in {"2024-11-05", "2024-10-07", "1.0.0"}
         THEN request.version ELSE "2024-11-05"
\* a client asked for a version newer than any the dispatcher knows and
\* was answered with the default
C19_Witness ==
  /\ request # NoRequest
  /\ request.method = "initialize"
  /\ request.version = "2025-03-26"
  /\ Len(Results) = 1
  /\ Results[1].protocolVersion = "2024-11-05"

\* C20: resources/list returns exactly one resource, that of the
\* configured project, and resources/read only ever asks the backend for
\* the listing of the configured project, whatever URI the client supplies
C20_OnlyConfiguredProjectExposed ==
  /\ (request # NoRequest /\ request.method = "resources/list") =>
       /\ Len(Results) = 1
       /\ Results[1].resources = <<ProjectResource>>
  /\ (request # NoRequest /\ request.method = "resources/read") =>
       queries \subseteq {"configured"}

(***************************************************************************)
(* HttpSpec: HttpClient.mapHttpError applied to a non-2xx reply.  The body *)
(* (responseText) is empty, a text that is not JSON, the JSON text null,   *)
(* or a JSON object that may carry retryAfter and message.                 *)
(***************************************************************************)
ERROR_MAPPINGS ==
  <<[httpStatus |-> 400, jsonRpcCode |-> INVALID_PARAMS, message |-> "Invalid request parameters"],
    [httpStatus |-> 401, jsonRpcCode |-> UNAUTHORIZED, message |-> "Unauthorized"],
    [httpStatus |-> 403, jsonRpcCode |-> FORBIDDEN, message |-> "Forbidden"],
    [httpStatus |-> 404, jsonRpcCode |-> NOT_FOUND, message |-> "Resource not found"],
    [httpStatus |-> 429, jsonRpcCode |-> RATE_LIMITED, message |-> "Rate limit exceeded"],
    [httpStatus |-> 500, jsonRpcCode |-> INTERNAL_ERROR, message |-> "Internal server error"],
    [httpStatus |-> 502, jsonRpcCode |-> SERVICE_UNAVAILABLE, message |-> "Bad gateway"],
    [httpStatus |-> 503, jsonRpcCode |-> SERVICE_UNAVAILABLE, message |-> "Service unavailable"],
    [httpStatus |-> 504, jsonRpcCode |-> SERVICE_UNAVAILABLE, message |-> "Gateway timeout"]>>
\* the statuses of replies that are not ok
Statuses == {400, 401, 403, 404, 409, 418, 429, 500, 501, 502, 503, 504}
\* the values a retryAfter field can have (seconds)
RetryAfters == {0, 5, 120}
Bodies ==
  {[kind |-> k, hasRetryAfter |-> FALSE, retryAfter |-> 0, hasMessage |-> FALSE] :
     k \in {"empty", "text", "null"}}
    \cup {[kind |-> "object", hasRetryAfter |-> TRUE, retryAfter |-> v, hasMessage |-> m] :
            v \in RetryAfters, m \in BOOLEAN}
    \cup {[kind |-> "object", hasRetryAfter |-> FALSE, retryAfter |-> 0, hasMessage |-> m] :
            m \in BOOLEAN}

\* ERROR_MAPPINGS.find(m => m.httpStatus === status): its index, 0 if none
FindMapping(status) ==
  IF \E k \in 1..Len(ERROR_MAPPINGS) : ERROR_MAPPINGS[k].httpStatus = status
  THEN CHOOSE k \in 1..Len(ERROR_MAPPINGS) :
         /\ ERROR_MAPPINGS[k].httpStatus = status
         /\ \A j \in 1..(k - 1) : ERROR_MAPPINGS[j].httpStatus # status
  ELSE 0
\* JavaScript truthiness of a number
Truthy(n) == n # 0
\* if (response.retryAfter): JSON.parse of a text that is not JSON throws,
\* and so does reading a field of null; both are ignored
SetsRetryAfter(status, body) ==
  status = 429 /\ body.kind = "object" /\ body.hasRetryAfter /\ Truthy(body.retryAfter)
\* errorData.details
Details(body) ==
  CASE body.kind = "empty" -> "none"
    [] body.kind = "object" -> IF body.hasMessage THEN "parsed.message" ELSE "none"
    [] OTHER -> "responseText"

mapHttpError(status, body) ==
  LET k == FindMapping(status)
  IN IF k # 0
     THEN [code |-> ERROR_MAPPINGS[k].jsonRpcCode,
           message |-> [text |-> ERROR_MAPPINGS[k].message, status |-> 0],
           http_status |-> status,
           hasRetryAfter |-> SetsRetryAfter(status, body),
           retry_after |-> IF SetsRetryAfter(status, body) THEN body.retryAfter ELSE 0,
           details |-> Details(body)]
     ELSE [code |-> INTERNAL_ERROR,
           \* `HTTP ${status}: ${responseText || 'Unknown error'}`
           message |-> [text |-> "HTTP", status |-> status],
           http_status |-> status,
           hasRetryAfter |-> FALSE, retry_after |-> 0, details |-> "none"]

\* HttpClient.get / post: the reply is not ok and is mapped
MapReply(status, body) ==
  /\ httpReply = NoHttpReply
  /\ status \in Statuses
  /\ body \in Bodies
  /\ httpReply' = [status |-> status, body |-> body]
  /\ httpError' = mapHttpError(status, body)
  /\ UNCHANGED <<codecVars, transportDown, rpcVars, dedupVars, sessionVars,
                 handlerVars, retryVars, utilVars>>

HttpNext == \E status \in Statuses, body \in Bodies : MapReply(status, body)
HttpSpec == Init /\ [][HttpNext]_vars

\* the code the table of the specification gives a status (0: not in it)
TableCode(status) ==
  CASE status = 400 -> INVALID_PARAMS
    [] status = 401 -> UNAUTHORIZED
    [] status = 403 -> FORBIDDEN
    [] status = 404 -> NOT_FOUND
    [] status = 429 -> RATE_LIMITED
    [] status = 500 -> INTERNAL_ERROR
    [] status \in {502, 503, 504} -> SERVICE_UNAVAILABLE
    [] OTHER -> 0

\* C13: a non-2xx status is translated by the fixed table (404 with the
\* message 'Resource not found'), an unmapped status becomes INTERNAL_ERROR
\* with the raw status in the message, and a 429 whose body carries
\* retryAfter has data.retry_after equal to it, whatever its value
C13_ErrorMapping ==
  httpReply # NoHttpReply =>
    /\ TableCode(httpReply.status) # 0 => httpError.code = TableCode(httpReply.status)
    /\ httpReply.status = 404 => httpError.message.text = "Resource not found"
    /\ TableCode(httpReply.status) = 0 =>
         /\ httpError.code = INTERNAL_ERROR
         /\ httpError.message.status = httpReply.status
    /\ (httpReply.status = 429 /\ httpReply.body.kind = "object"
          /\ httpReply.body.hasRetryAfter) =>
         /\ httpError.hasRetryAfter
         /\ httpError.retry_after = httpReply.body.retryAfter

(***************************************************************************)
(* RetrySpec: RetryUtils.withRetry around an operation whose promise       *)
(* settles, called with its default maxRetries.                            *)
(***************************************************************************)
\* withRetry's default maxRetries
MAX_RETRIES == 3
\* how an invocation of the operation can fail: the error's code for the
\* errors of the network layer, a mapped HTTP error (numeric code), the
\* abort of a timed-out fetch, or anything else
NetworkCodes == {"ECONNREFUSED", "ENOTFOUND", "ETIMEDOUT", "ECONNRESET"}
Failures == NetworkCodes \cup {"HTTP 4xx", "HTTP 5xx", "AbortError", "Error"}

isNetworkErrorAny(error) == TRUE
\* ErrorUtils.isNetworkError
isNetworkError(error) ==
  \/ error = "ECONNREFUSED"
  \/ error = "ENOTFOUND"
  \/ error = "ETIMEDOUT"
  \/ error = "ECONNRESET"

\* withRetry is called: the loop starts and invokes the operation
RetryStart ==
  /\ retryPc = "idle"
  /\ retryPc' = "calling"
  /\ attempt' = 0
  /\ UNCHANGED <<invocations, retryResult>>
  /\ UNCHANGED <<codecVars, transportDown, rpcVars, dedupVars, sessionVars,
                 handlerVars, httpVars, utilVars>>

\* the operation's promise settles: with a value, which withRetry returns,
\* or with an error, which it rethrows or retries after a delay
OperationSettles(outcome) ==
  /\ retryPc = "calling"
  /\ outcome \in Failures \cup {"ok"}
  /\ invocations' = Append(invocations, outcome)
  /\ IF outcome = "ok"
     THEN retryPc' = "returned" /\ retryResult' = "ok"
     ELSE IF attempt = MAX_RETRIES \/ ~isNetworkError(outcome)
     THEN retryPc' = "thrown" /\ retryResult' = outcome
     ELSE retryPc' = "backoff" /\ UNCHANGED retryResult
  /\ UNCHANGED attempt
  /\ UNCHANGED <<codecVars, transportDown, rpcVars, dedupVars, sessionVars,
                 handlerVars, httpVars, utilVars>>

\* the backoff timer fires: the next iteration invokes the operation
BackoffElapses ==
  /\ retryPc = "backoff"
  /\ attempt' = attempt + 1
  /\ retryPc' = "calling"
  /\ UNCHANGED <<invocations, retryResult>>
  /\ UNCHANGED <<codecVars, transportDown, rpcVars, dedupVars, sessionVars,
                 handlerVars, httpVars, utilVars>>

RetryNext ==
  \/ RetryStart
  \/ \E outcome \in Failures \cup {"ok"} : OperationSettles(outcome)
  \/ BackoffElapses
\* the operation's promise settles and the backoff timer fires
RetrySpec == Init /\ [][RetryNext]_vars /\ WF_vars(RetryNext)

RetrySettled == retryPc \in {"returned", "thrown"}
\* at most 1 + 3 invocations; an invocation is followed by another only
\* when it failed with a network-class error; any other failure is
\* rethrown at once
RetryBounded ==
  /\ Len(invocations) <= 1 + MAX_RETRIES
  /\ \A k \in 1..(Len(invocations) - 1) : invocations[k] \in NetworkCodes
  /\ (invocations # <<>> /\ invocations[Len(invocations)] \notin NetworkCodes) =>
       /\ RetrySettled
       /\ retryResult = invocations[Len(invocations)]

\* C14: withRetry invokes the operation at most 1 + 3 times, retries only
\* after a transient network-class failure, rethrows any other failure at
\* once, and always terminates
C14_RetryBoundedAndTerminates ==
  /\ []RetryBounded
  /\ (retryPc = "calling") ~> RetrySettled
C14_Witness ==
  /\ retryPc = "thrown"
  /\ Len(invocations) = 1 + MAX_RETRIES
  /\ retryResult \in NetworkCodes

(***************************************************************************)
(* FramingSpec: FramingUtils.  A content string is framed, the frame is    *)
(* encoded as UTF-8 (Buffer.from(framed, 'utf8')) and its bytes arrive in  *)
(* chunks; parseFramedMessage is applied to the bytes received so far.     *)
(* Bytes are written as the code unit they encode, except for the two      *)
(* bytes 0xC3 0xA9 of e-acute.                                             *)
(***************************************************************************)
\* most pieces a content string is made of
MaxPieces == 2
ContentPieces ==
  {<<"a">>, <<"U+00E9">>, <<"1">>, HEADER_SEPARATOR,
   <<"{", "a", "a", "a", "a", "a", "a", "}">>}
RECURSIVE Concat(_)
Concat(ps) == IF ps = <<>> THEN <<>> ELSE Head(ps) \o Concat(Tail(ps))
Contents == {Concat(ps) : ps \in SeqsUpTo(ContentPieces, MaxPieces)}

\* Buffer.from(s, 'utf8')
RECURSIVE Utf8Encode(_)
Utf8Encode(s) ==
  IF s = <<>> THEN <<>>
  ELSE (IF Head(s) = "U+00E9" THEN <<"0xC3", "0xA9">> ELSE <<Head(s)>>)
         \o Utf8Encode(Tail(s))
\* buffer.toString('utf8'): a byte sequence that is not a character decodes
\* to U+FFFD
RECURSIVE Utf8Decode(_)
Utf8Decode(b) ==
  IF b = <<>> THEN <<>>
  ELSE IF Len(b) >= 2 /\ b[1] = "0xC3" /\ b[2] = "0xA9"
  THEN <<"U+00E9">> \o Utf8Decode(SubSeq(b, 3, Len(b)))
  ELSE IF Head(b) \in {"0xC3", "0xA9"}
  THEN <<"U+FFFD">> \o Utf8Decode(Tail(b))
  ELSE <<Head(b)>> \o Utf8Decode(Tail(b))
\* buffer.subarray(a, b): 0-based, end exclusive, clamped
Subarray(b, from, to) == SubSeq(b, Clamp(b, from) + 1, Clamp(b, to))

\* FramingUtils.frameMessage
frameMessage(c) ==
  CONTENT_LENGTH_HEADER \o <<" ">> \o ToDigits(ByteLength(c))
    \o HEADER_SEPARATOR \o c

\* headerSection.match(/^Content-Length: (\d+)$/m): the keyword at the
\* start of a line, one space, digits up to the end of the line
IsLineEnd(c) == c \in {"\r", "\n"}
HeaderLineAt(h, i) ==
  /\ i = 0 \/ (i <= Len(h) /\ IsLineEnd(h[i]))
  /\ MatchAt(h, CONTENT_LENGTH_HEADER \o <<" ">>, i)
  /\ LET p == i + Len(CONTENT_LENGTH_HEADER) + 1
         q == DigitsEnd(h, p)
     IN q > p /\ (q = Len(h) \/ IsLineEnd(h[q + 1]))
\* capture group 1 of the first match, or the empty sequence
HeaderLineMatch(h) ==
  IF \E i \in 0..Len(h) : HeaderLineAt(h, i)
  THEN LET i == CHOOSE i \in 0..Len(h) :
                  HeaderLineAt(h, i) /\ \A j \in 0..(i - 1) : ~HeaderLineAt(h, j)
           p == i + Len(CONTENT_LENGTH_HEADER) + 1
       IN Substring(h, p, DigitsEnd(h, p))
  ELSE <<>>

\* FramingUtils.parseFramedMessage: kind is "null", "throw" or "message"
parseFramedMessage(b) ==
  LET bufferStr == Utf8Decode(b)
      headerEndIndex == IndexOf(bufferStr, HEADER_SEPARATOR)
      headerSection == Substring(bufferStr, 0, headerEndIndex)
      contentLengthMatch == HeaderLineMatch(headerSection)
  IN IF headerEndIndex = -1
     THEN [kind |-> "null", message |-> <<>>, remaining |-> <<>>]
     ELSE IF contentLengthMatch = <<>>
     THEN [kind |-> "throw", message |-> <<>>, remaining |-> <<>>]
     ELSE LET contentLength == ParseInt(contentLengthMatch)
              messageStart == headerEndIndex + Len(HEADER_SEPARATOR)
              messageEnd == messageStart + contentLength
          IN IF Len(b) < messageEnd
             THEN [kind |-> "null", message |-> <<>>, remaining |-> <<>>]
             ELSE [kind |-> "message",
                   message |-> Utf8Decode(Subarray(b, messageStart, messageEnd)),
                   remaining |-> Subarray(b, messageEnd, Len(b))]

FramingInit ==
  /\ CodecIdle
  /\ transportDown = FALSE
  /\ RpcIdle
  /\ DedupIdle
  /\ SessionIdle
  /\ request = NoRequest /\ responses = <<>> /\ queries = {}
  /\ httpReply = NoHttpReply /\ httpError = NoHttpError
  /\ retryPc = "idle" /\ attempt = 0 /\ invocations = <<>> /\ retryResult = "none"
  /\ framedContent \in Contents
  /\ received = <<>>
  /\ parsedMessage = NotParsed
  /\ configInput = NoConfigInput
  /\ configResult = NoConfigResult
  /\ fetch = NoFetch

\* the bytes of the frame that have not arrived
ToArrive ==
  SubSeq(Utf8Encode(frameMessage(framedContent)), Len(received) + 1,
         Len(Utf8Encode(frameMessage(framedContent))))
\* n more bytes of the frame arrive and the buffer is parsed
ReceiveBytes(n) ==
  /\ n \in 1..Len(ToArrive)
  /\ received' = received \o SubSeq(ToArrive, 1, n)
  /\ parsedMessage' = parseFramedMessage(received')
  /\ UNCHANGED <<framedContent, codecVars, transportDown, rpcVars, dedupVars,
                 sessionVars, handlerVars, httpVars, retryVars, configVars,
                 fetchVars>>

FramingNext == \E n \in 1..Len(ToArrive) : ReceiveBytes(n)
FramingSpec == FramingInit /\ [][FramingNext]_vars

\* C22: parsing the whole frame of a content string returns that string
\* with nothing remaining, and parsing a strict prefix of the frame
\* returns null
C22_FramingRoundTrip ==
  received # <<>> =>
    IF received = Utf8Encode(frameMessage(framedContent))
    THEN parsedMessage =
           [kind |-> "message", message |-> framedContent, remaining |-> <<>>]
    ELSE parsedMessage.kind = "null"
\* the frame of a content string with a two-byte character and more than
\* nine bytes has arrived whole and the string was returned
C22_Witness ==
  /\ received = Utf8Encode(frameMessage(framedContent))
  /\ ByteLength(framedContent) > 9
  /\ \E k \in 1..Len(framedContent) : framedContent[k] = "U+00E9"
  /\ ByteLength(framedContent) > Len(framedContent)
  /\ parsedMessage.kind = "message"
  /\ parsedMessage.message = framedContent

(***************************************************************************)
(* ConfigSpec: parseConfig run as an MCP server (no interactive prompts).  *)
(* A string setting that is undefined is written "" (the code tests        *)
(* truthiness, so the two behave alike); a numeric or boolean setting of a *)
(* source is a record [given, value].  projectId is read exactly as        *)
(* authToken is and is left out.                                           *)
(***************************************************************************)
DEFAULT_SERVER_URL == "https://cortex-context-mcp.vercel.app"
Given(v) == [given |-> TRUE, value |-> v]
NotGivenNumber == [given |-> FALSE, value |-> 0]
NotGivenBoolean == [given |-> FALSE, value |-> FALSE]

\* what the command line can hold: --server-url, --token, --timeout n,
\* --verbose / --no-verbose
FlagInputs ==
  [serverUrl : {"", "https://flag.example"},
   authToken : {"", "flag-token-0001"},
   timeout : {NotGivenNumber, Given(DEFAULT_TIMEOUT), Given(5000)},
   verbose : {NotGivenBoolean, Given(TRUE), Given(FALSE)}]
\* the environment: MCP_SERVER_URL, MCP_TOKEN, MCP_TIMEOUT, MCP_VERBOSE
\* (<<>> and "unset": the variable is not set)
EnvInputs ==
  [serverUrl : {""},
   authToken : {"", "env-token-0001"},
   timeout : {<<>>, <<"7", "0", "0", "0">>},
   verbose : {"unset", "true", "false"}]
\* the profile ConfigFileManager.getProfile returns for a file
ProjectProfiles ==
  [serverUrl : {"", "https://project.example"},
   authToken : {"", "project-token-0001"},
   timeout : {NotGivenNumber, Given(9000)},
   verbose : {NotGivenBoolean, Given(TRUE), Given(FALSE)}]
GlobalProfiles ==
  [serverUrl : {""},
   authToken : {"global-token-0001"},
   timeout : {NotGivenNumber, Given(11000)},
   verbose : {NotGivenBoolean, Given(TRUE)}]
ConfigInputs ==
  [flag : FlagInputs, env : EnvInputs, project : ProjectProfiles,
   global : GlobalProfiles]

\* yargs(...).parseSync(): timeout and verbose have defaults
yargsResult(flag) ==
  [serverUrl |-> flag.serverUrl, token |-> flag.authToken,
   timeout |-> IF flag.timeout.given THEN flag.timeout.value ELSE DEFAULT_TIMEOUT,
   verbose |-> IF flag.verbose.given THEN flag.verbose.value ELSE FALSE]
\* EnvironmentManager.getConfigFromEnv: verbose is the value of a
\* comparison, so it is never undefined
EnvVerbose(env) == Given(env.verbose = "true")
getConfigFromEnv(env) ==
  [serverUrl |-> env.serverUrl, authToken |-> env.authToken,
   timeout |-> IF env.timeout # <<>> THEN Given(ParseInt(env.timeout))
               ELSE NotGivenNumber,
   verbose |-> EnvVerbose(env)]
\* the block of assignments made for a profile of a file or for envConfig
ApplyProfile(config, profile, source) ==
  [serverUrl |-> IF profile.serverUrl # "" THEN profile.serverUrl ELSE config.serverUrl,
   authToken |-> IF profile.authToken # "" THEN profile.authToken ELSE config.authToken,
   timeout |-> IF profile.timeout.given THEN profile.timeout.value ELSE config.timeout,
   verbose |-> IF profile.verbose.given THEN profile.verbose.value ELSE config.verbose,
   sources |->
     [serverUrl |-> IF profile.serverUrl # "" THEN source ELSE config.sources.serverUrl,
      authToken |-> IF profile.authToken # "" THEN source ELSE config.sources.authToken,
      timeout |-> IF profile.timeout.given THEN source ELSE config.sources.timeout,
      verbose |-> IF profile.verbose.given THEN source ELSE config.sources.verbose]]
\* yargsResult.timeout !== DEFAULT_TIMEOUT
FlagTimeoutApplies(flag, args) == args.timeout # DEFAULT_TIMEOUT
\* 4. Apply command line flags
ApplyFlags(config, flag) ==
  LET args == yargsResult(flag)
  IN [serverUrl |-> IF args.serverUrl # "" THEN args.serverUrl ELSE config.serverUrl,
      authToken |-> IF args.token # "" THEN args.token ELSE config.authToken,
      timeout |-> IF FlagTimeoutApplies(flag, args) THEN args.timeout ELSE config.timeout,
      verbose |-> IF args.verbose # FALSE THEN args.verbose ELSE config.verbose,
      sources |->
        [serverUrl |-> IF args.serverUrl # "" THEN "flag" ELSE config.sources.serverUrl,
         authToken |-> IF args.token # "" THEN "flag" ELSE config.sources.authToken,
         timeout |-> IF FlagTimeoutApplies(flag, args) THEN "flag"
                     ELSE config.sources.timeout,
         verbose |-> IF args.verbose # FALSE THEN "flag" ELSE config.sources.verbose]]
ConfigDefaults ==
  [serverUrl |-> DEFAULT_SERVER_URL, authToken |-> "",
   timeout |-> DEFAULT_TIMEOUT, verbose |-> FALSE,
   sources |-> [serverUrl |-> "default", authToken |-> "interactive",
                timeout |-> "default", verbose |-> "default"]]
\* parseConfig: defaults, global file, project file, environment, flags
parseConfig(in) ==
  LET afterGlobal == ApplyProfile(ConfigDefaults, in.global, "global-config")
      afterProject == ApplyProfile(afterGlobal, in.project, "project-config")
      afterEnv == ApplyProfile(afterProject, getConfigFromEnv(in.env), "env")
      config == ApplyFlags(afterEnv, in.flag)
  IN IF config.authToken = ""
     THEN [kind |-> "throw", config |-> config]
     ELSE [kind |-> "config", config |-> config]

ParseConfig(in) ==
  /\ in \in ConfigInputs
  /\ configInput' = in
  /\ configResult' = parseConfig(in)
  /\ UNCHANGED <<codecVars, transportDown, rpcVars, dedupVars, sessionVars,
                 handlerVars, httpVars, retryVars, framingVars, fetchVars>>
ConfigNext ==
  configInput = NoConfigInput /\ \E in \in ConfigInputs : ParseConfig(in)
ConfigSpec == Init /\ [][ConfigNext]_vars

\* what each source supplies, as the claim counts it: a flag that is on
\* the command line, an environment variable that is set, a field a
\* profile has
SuppliedTimeout(in) ==
  <<in.flag.timeout,
    IF in.env.timeout # <<>> THEN Given(ParseInt(in.env.timeout)) ELSE NotGivenNumber,
    in.project.timeout, in.global.timeout, Given(DEFAULT_TIMEOUT)>>
SuppliedVerbose(in) ==
  <<in.flag.verbose,
    IF in.env.verbose # "unset" THEN Given(in.env.verbose = "true")
    ELSE NotGivenBoolean,
    in.project.verbose, in.global.verbose, Given(FALSE)>>
SuppliedString(in, setting, default) ==
  <<in.flag[setting], in.env[setting], in.project[setting], in.global[setting],
    default>>
\* the value of the first source, in order of precedence, that supplies one
FirstGiven(sources) ==
  sources[CHOOSE k \in 1..Len(sources) :
            sources[k].given /\ \A j \in 1..(k - 1) : ~sources[j].given].value
FirstNonEmpty(sources) ==
  sources[CHOOSE k \in 1..Len(sources) :
            sources[k] # "" /\ \A j \in 1..(k - 1) : sources[j] = ""]

\* C23: each effective setting is the one supplied by the highest source
\* that supplies it, in the order flag > environment > project file >
\* global file > default
C23_ConfigPrecedence ==
  configResult # NoConfigResult =>
    /\ configResult.kind = "config"
    /\ configResult.config.serverUrl =
         FirstNonEmpty(SuppliedString(configInput, "serverUrl", DEFAULT_SERVER_URL))
    /\ configResult.config.authToken =
         FirstNonEmpty(SuppliedString(configInput, "authToken", "none"))
    /\ configResult.config.timeout = FirstGiven(SuppliedTimeout(configInput))
    /\ configResult.config.verbose = FirstGiven(SuppliedVerbose(configInput))

(***************************************************************************)
(* ReadinessSpec: one request handled by MethodDispatcher.handleRequest in *)
(* a session that initialized notifications may or may not have made ready *)
(* before it.                                                              *)
(***************************************************************************)
ToolsListRequests ==
  {[BlankRequest EXCEPT !.method = "tools/list", !.write = w, !.timeoutMs = ms] :
     w \in Outcomes, ms \in HttpTimeouts}
\* the requests of the dispatcher for methods other than initialize
ReadinessRequests ==
  {r \in Requests : r.impl = "dispatcher" /\ r.method # "initialize"}
    \cup ToolsListRequests
\* MethodDispatcher.handleToolsList: the fixed list of tools
handleToolsList(r) == Payload("tools", NULL, <<>>)
\* what a dispatcher that turned a request away for the session state
\* would throw
NotInitialized == Threw(INVALID_REQUEST, "Server not initialized")
\* MethodDispatcher.handleRequest, for a session whose flag is `initialized`
dispatcherHandleRequest(r, initialized) ==
  IF ~Proceeds(r.method, initialized) THEN NotInitialized
  ELSE IF r.method = "tools/list" THEN handleToolsList(r)
  ELSE Handle(r)
\* the time taken: handleToolsList awaits two log POSTs
ElapsedIn(r) ==
  IF r.method = "tools/list" THEN LogMs(r) + LogMs(r) ELSE Elapsed(r)
\* the envelopes written for the request
ResponsesWhen(r, initialized) ==
  IF ElapsedIn(r) >= REQUEST_TIMEOUT_MS
  THEN <<RequestTimeoutEnvelope, Envelope(dispatcherHandleRequest(r, initialized))>>
  ELSE <<Envelope(dispatcherHandleRequest(r, initialized))>>

\* a request arrives and is handled to its end
DispatchRequest(r) ==
  /\ request = NoRequest
  /\ r \in ReadinessRequests
  /\ request' = r
  /\ responses' = ResponsesWhen(r, isInitialized)
  /\ queries' = Queried(r)
  /\ UNCHANGED <<codecVars, transportDown, rpcVars, dedupVars, sessionVars,
                 httpVars, retryVars, utilVars>>

ReadinessNext ==
  \/ request = NoRequest /\ InitializedNotification
  \/ request = NoRequest /\ InitializedLogged
  \/ request = NoRequest /\ \E r \in ReadinessRequests : DispatchRequest(r)
ReadinessSpec == Init /\ [][ReadinessNext]_vars

\* C37: a resources/list, resources/read, tools/list or tools/call request
\* is processed and answered in the same way whether or not the session is
\* ready when it arrives: the envelopes written are those written for the
\* request in a ready session, and none turns the request away for the
\* session state
C37_ProcessedBeforeReady ==
  request # NoRequest =>
    /\ responses = ResponsesWhen(request, TRUE)
    /\ \A k \in 1..Len(responses) : responses[k] # Envelope(NotInitialized)
\* a tools/call request arrived in a session that was not ready and has
\* a result
C37_Witness ==
  /\ request # NoRequest
  /\ ~isInitialized
  /\ request.method = "tools/call"
  /\ Len(responses) = 1
  /\ responses[1].kind = "result"

(***************************************************************************)
(* FetchSpec: one HttpClient.get / post call under a clock.  The call      *)
(* awaits fetch (the response head) and then response.text() (the body),   *)
(* both under the signal of createTimeoutSignal, whose timer is never      *)
(* cleared.                                                                *)
(***************************************************************************)
\* the clock is observed up to this time
MaxFetchClock == 35000
\* the steps by which the clock advances
FetchDelays == {FastMs, 5000, 25000}
FetchStatuses == {200, 404, 503}
EmptyBody == [kind |-> "empty", hasRetryAfter |-> FALSE, retryAfter |-> 0,
              hasMessage |-> FALSE]
\* what the try block can throw: the AbortError of an aborted fetch or
\* body read, the TypeError of a failed connection, a mapped HTTP error
AbortError == [name |-> "AbortError", code |-> 0, message |-> "aborted"]
FetchFailed == [name |-> "TypeError", code |-> 0, message |-> "fetch failed"]
Mapped(status) ==
  [name |-> "none", code |-> mapHttpError(status, EmptyBody).code,
   message |-> mapHttpError(status, EmptyBody).message.text]
FetchError(code, message) == [kind |-> "error", code |-> code, message |-> message]

CatchErrorNoAbort(error) ==
  IF error.code # 0 /\ error.message # ""
  THEN FetchError(error.code, error.message)
  ELSE FetchError(INTERNAL_ERROR, "Network error")
\* the catch block of get / post: what the call rejects with
CatchError(error) ==
  IF error.name = "AbortError" THEN FetchError(INTERNAL_ERROR, "Request timeout")
  ELSE IF error.code # 0 /\ error.message # ""
  THEN FetchError(error.code, error.message)
  ELSE FetchError(INTERNAL_ERROR, "Network error")

Outstanding == fetch.pc \in {"fetching", "reading"}
fetchRest == <<codecVars, transportDown, rpcVars, dedupVars, sessionVars,
               handlerVars, httpVars, retryVars, framingVars, configVars>>

\* get / post is called: createTimeoutSignal arms the timer and fetch starts
StartFetch(method, timeoutMs) ==
  /\ fetch.pc = "idle"
  /\ fetch' = [NoFetch EXCEPT !.pc = "fetching", !.method = method,
                              !.timeout = timeoutMs, !.timer = "armed"]
  /\ UNCHANGED fetchRest
\* time passes; a timer that is due runs before more time passes
FetchTimePasses(d) ==
  /\ fetch.pc # "idle"
  /\ fetch.clock + d <= MaxFetchClock
  /\ fetch.timer = "armed" => fetch.clock + d <= fetch.timeout
  /\ fetch' = [fetch EXCEPT !.clock = @ + d]
  /\ UNCHANGED fetchRest
\* the timer callback: controller.abort(); an outstanding fetch or body
\* read rejects with AbortError, which the catch block turns into the
\* timeout error
AbortTimerFires ==
  /\ fetch.timer = "armed"
  /\ fetch.clock >= fetch.timeout
  /\ fetch' = IF Outstanding
              THEN [fetch EXCEPT !.timer = "fired", !.aborted = TRUE,
                                 !.pc = "rejected", !.result = CatchError(AbortError)]
              ELSE [fetch EXCEPT !.timer = "fired", !.aborted = TRUE]
  /\ UNCHANGED fetchRest
\* the response head arrives: fetch resolves and response.text() is awaited
ResponseArrives(status) ==
  /\ fetch.pc = "fetching"
  /\ fetch' = [fetch EXCEPT !.pc = "reading", !.status = status]
  /\ UNCHANGED fetchRest
\* the body has been read: the call returns, or throws the mapped error
BodyRead ==
  /\ fetch.pc = "reading"
  /\ fetch' = IF fetch.status \in 200..299
              THEN [fetch EXCEPT !.pc = "returned",
                      !.result = [kind |-> "response", code |-> fetch.status,
                                  message |-> "data"]]
              ELSE [fetch EXCEPT !.pc = "rejected",
                      !.result = CatchError(Mapped(fetch.status))]
  /\ UNCHANGED fetchRest
\* the connection fails
ConnectionFails ==
  /\ fetch.pc = "fetching"
  /\ fetch' = [fetch EXCEPT !.pc = "rejected", !.result = CatchError(FetchFailed)]
  /\ UNCHANGED fetchRest

FetchNext ==
  \/ \E method \in {"GET", "POST"}, timeoutMs \in HttpTimeouts :
       StartFetch(method, timeoutMs)
  \/ \E d \in FetchDelays : FetchTimePasses(d)
  \/ AbortTimerFires
  \/ \E status \in FetchStatuses : ResponseArrives(status)
  \/ BodyRead
  \/ ConnectionFails
FetchSpec == Init /\ [][FetchNext]_vars

\* C38: a get / post is bounded by the configured timeout: it is never
\* outstanding past it; when the timer fires on an outstanding call the
\* network call is aborted and the call rejects with 'Request timeout' and
\* a numeric error code; a call that has returned or rejected keeps its
\* outcome when its timer fires later
C38_CallBoundedByTimeout ==
  [][/\ Outstanding' => (fetch'.timer = "armed" /\ fetch'.clock <= fetch'.timeout)
     /\ (Outstanding /\ fetch.timer = "armed" /\ fetch'.timer = "fired") =>
          /\ fetch'.pc = "rejected"
          /\ fetch'.aborted
          /\ fetch'.result.message = "Request timeout"
          /\ fetch'.result.code \in Int
     /\ fetch.pc \in {"returned", "rejected"} =>
          (fetch'.pc = fetch.pc /\ fetch'.result = fetch.result)]_vars
\* the head of the response had arrived but not the body when the timeout
\* elapsed: the call was aborted and rejected with 'Request timeout'
C38_Witness ==
  /\ fetch.pc = "rejected"
  /\ fetch.status # 0
  /\ fetch.aborted
  /\ fetch.clock = fetch.timeout
  /\ fetch.result = FetchError(INTERNAL_ERROR, "Request timeout")

====
